---- MODULE Spec2Model ----
(***************************************************************************)
(* State-machine model of the interaction core of ucas-graphics            *)
(* (src/src/basics): the Canvas entity registry (canvas.hpp), the Painter  *)
(* controller with its history, menu and style cursor (painter.hpp) and    *)
(* the per-shape Draft state machines (drafts.hpp).                        *)
(*                                                                         *)
(* Real-valued world coordinates and lengths are fixed-point integers in   *)
(* tenths of a world unit (1.0 is 10, 0.8 is 8).  Entities are identified  *)
(* by their address, a positive integer; NoEntity is the null pointer.     *)
(* Every C++ method is an operator from the program state (a record with   *)
(* one field per variable) to the program state after the call.            *)
(***************************************************************************)
EXTENDS Integers, Sequences, FiniteSets, TLC

VARIABLES
    \* ---- Canvas (canvas.hpp) ----
    entities,               \* std::set<Entity*>: the live set
    entity_attributes,      \* std::map<Entity*, EntityAttribute>: address -> priority
    priority_counter,       \* int
    config,                 \* the config payload of every constructed, not yet destroyed entity
    thrown,                 \* TRUE once a std::runtime_error has left an operation
    \* ---- Painter (painter.hpp) ----
    state, active_shape, last_committed_shape,
    polygon_points, committed_polygon, committed_rectangle,
    segments, preview_segment, preview_rectangle,
    rect_first_corner, rect_second_corner,
    menu_state, menu_layer, last_cursor_world,
    stroke_color_index, stroke_width_index, fill_color_index, corner_radius_index,
    drawn_entities, next_priority, working_priority_counter,
    \* ---- the active Draft (drafts.hpp) and the receiver of its commits ----
    draft_kind,
    first_point_, preview_line_,
    first_corner_, preview_rectangle_,
    points_, segments_, preview_segment_,
    center_, preview_circle_,
    commits,                \* the DraftCommits handed to commit_callback, oldest first
    \* ---- observation variables (not program state) ----
    add_order,              \* Canvas clients: live entities in the order they were added
    overridden,             \* Canvas clients: live entities given a priority by set_entity_priority
    absent_delete,          \* Canvas clients: the registry as it was when delete_entity was
                            \*   last called with a non-member, else None
    frame,                  \* Canvas clients: the entities in the order the frame just
                            \*   rendered drew them; None unless the last step was a frame
    trail,                  \* Painter: "commit" after a handler that appended a HistoryEntry,
                            \*   "commit-undo" after a Backspace press that directly follows it
                            \*   "undo" after any other handler that popped a HistoryEntry
    pre_commit,             \* Painter: drawn_entities as it was before that commit
    committed_entity,       \* Painter: the entity that commit appended
    p_event,                \* Painter: the last handler call: "SPACE", "ESCAPE" or
                            \*   "BACKSPACE" (that key pressed), "press" (primary press),
                            \*   "button" (any other button event), "other"; under
                            \*   SpecStyle the menu action that was run
    last_commits,           \* Draft: number of DraftCommits the last handler call produced
    d_event,                \* Draft: the last handler call: "press" (primary press), "ESCAPE"
                            \*   or "ENTER" (that key pressed), "button" (any other button
                            \*   event), "reset" (reset() called), "other"
    d_presses,              \* Draft: the points of the primary presses of the current gesture
                            \*   (kept through the event that ends it, empty after the next)
    d_recorded,             \* Draft: points_ as it was before the last handler call
    d_done,                 \* Draft: that gesture is over (a commit, or a press of a
                            \*   button or key that left the Draft idle)
    d_others,               \* Draft: the registered entities the Draft does not own, with
                            \*   priority and config, as they were before the last handler call
    canvas_alive,           \* Canvas teardown: the Canvas object has not been destructed
    detached,               \* Canvas teardown: the entity objects whose container is nullptr
    fault,                  \* Canvas teardown: "" or the undefined behaviour that was run into:
                            \*   "use-after-free" (the destructed Canvas was dereferenced),
                            \*   "null-deref:crash" / "null-deref:garbage" (a nullptr container
                            \*   was dereferenced; the process died / went on with garbage)
    probe                   \* a value under test apart from any session (a MenuState with
                            \*   a point, ...), with what the functions applied to it gave;
                            \*   None while no such value is examined

canvas_vars == <<entities, entity_attributes, priority_counter, config, thrown>>
painter_vars == <<state, active_shape, last_committed_shape, polygon_points,
                  committed_polygon, committed_rectangle, segments, preview_segment,
                  preview_rectangle, rect_first_corner, rect_second_corner, menu_state,
                  menu_layer, last_cursor_world, stroke_color_index, stroke_width_index,
                  fill_color_index, corner_radius_index, drawn_entities, next_priority,
                  working_priority_counter>>
draft_vars == <<draft_kind, first_point_, preview_line_, first_corner_, preview_rectangle_,
                points_, segments_, preview_segment_, center_, preview_circle_, commits>>
canvas_obs == <<add_order, overridden, absent_delete, frame>>
painter_obs == <<trail, pre_commit, committed_entity, p_event>>
draft_obs == <<last_commits, d_event, d_presses, d_recorded, d_done, d_others>>
teardown_vars == <<canvas_alive, detached, fault>>
obs_vars == <<canvas_obs, painter_obs, draft_obs, probe>>
vars == <<canvas_vars, painter_vars, draft_vars, teardown_vars, obs_vars>>

\* The program state as one record, and its assignment to the next state.
Cur ==
    [entities |-> entities, entity_attributes |-> entity_attributes,
     priority_counter |-> priority_counter, config |-> config, thrown |-> thrown,
     state |-> state, active_shape |-> active_shape,
     last_committed_shape |-> last_committed_shape, polygon_points |-> polygon_points,
     committed_polygon |-> committed_polygon, committed_rectangle |-> committed_rectangle,
     segments |-> segments, preview_segment |-> preview_segment,
     preview_rectangle |-> preview_rectangle, rect_first_corner |-> rect_first_corner,
     rect_second_corner |-> rect_second_corner, menu_state |-> menu_state,
     menu_layer |-> menu_layer, last_cursor_world |-> last_cursor_world,
     stroke_color_index |-> stroke_color_index, stroke_width_index |-> stroke_width_index,
     fill_color_index |-> fill_color_index, corner_radius_index |-> corner_radius_index,
     drawn_entities |-> drawn_entities, next_priority |-> next_priority,
     working_priority_counter |-> working_priority_counter,
     draft_kind |-> draft_kind, first_point_ |-> first_point_,
     preview_line_ |-> preview_line_, first_corner_ |-> first_corner_,
     preview_rectangle_ |-> preview_rectangle_, points_ |-> points_,
     segments_ |-> segments_, preview_segment_ |-> preview_segment_,
     center_ |-> center_, preview_circle_ |-> preview_circle_, commits |-> commits]

Becomes(S) ==
    /\ entities' = S.entities
    /\ entity_attributes' = S.entity_attributes
    /\ priority_counter' = S.priority_counter
    /\ config' = S.config
    /\ thrown' = S.thrown
    /\ state' = S.state
    /\ active_shape' = S.active_shape
    /\ last_committed_shape' = S.last_committed_shape
    /\ polygon_points' = S.polygon_points
    /\ committed_polygon' = S.committed_polygon
    /\ committed_rectangle' = S.committed_rectangle
    /\ segments' = S.segments
    /\ preview_segment' = S.preview_segment
    /\ preview_rectangle' = S.preview_rectangle
    /\ rect_first_corner' = S.rect_first_corner
    /\ rect_second_corner' = S.rect_second_corner
    /\ menu_state' = S.menu_state
    /\ menu_layer' = S.menu_layer
    /\ last_cursor_world' = S.last_cursor_world
    /\ stroke_color_index' = S.stroke_color_index
    /\ stroke_width_index' = S.stroke_width_index
    /\ fill_color_index' = S.fill_color_index
    /\ corner_radius_index' = S.corner_radius_index
    /\ drawn_entities' = S.drawn_entities
    /\ next_priority' = S.next_priority
    /\ working_priority_counter' = S.working_priority_counter
    /\ draft_kind' = S.draft_kind
    /\ first_point_' = S.first_point_
    /\ preview_line_' = S.preview_line_
    /\ first_corner_' = S.first_corner_
    /\ preview_rectangle_' = S.preview_rectangle_
    /\ points_' = S.points_
    /\ segments_' = S.segments_
    /\ preview_segment_' = S.preview_segment_
    /\ center_' = S.center_
    /\ preview_circle_' = S.preview_circle_
    /\ commits' = S.commits

(***************************************************************************)
(* Values                                                                  *)
(***************************************************************************)
NoEntity == 0                       \* nullptr
None == <<>>                        \* std::nullopt / an empty vector
Some(v) == <<v>>                    \* an engaged std::optional
Last(s) == s[Len(s)]
Front(s) == SubSeq(s, 1, Len(s) - 1)
Range(s) == {s[i] : i \in 1..Len(s)}
Abs(x) == IF x < 0 THEN -x ELSE x
Put(f, k, v) == [x \in (DOMAIN f) \cup {k} |-> IF x = k THEN v ELSE f[x]]
Drop(f, k) == [x \in (DOMAIN f) \ {k} |-> f[x]]
Without(s, e) == SelectSeq(s, LAMBDA x : x # e)
Half(x) == x \div 2                 \* x * 0.5, exact on the even values used here

GLFW_PRESS == "PRESS"
GLFW_RELEASE == "RELEASE"
GLFW_MOUSE_BUTTON_LEFT == "LEFT"
GLFW_MOUSE_BUTTON_RIGHT == "RIGHT"
GLFW_KEY_SPACE == "SPACE"
GLFW_KEY_ESCAPE == "ESCAPE"
GLFW_KEY_BACKSPACE == "BACKSPACE"
GLFW_KEY_ENTER == "ENTER"
Keys == {GLFW_KEY_SPACE, GLFW_KEY_ESCAPE, GLFW_KEY_BACKSPACE, GLFW_KEY_ENTER}
KeyActions == {GLFW_PRESS, GLFW_RELEASE}
Buttons == {GLFW_MOUSE_BUTTON_LEFT, GLFW_MOUSE_BUTTON_RIGHT}

(***************************************************************************)
(* Canvas: the entity registry (canvas.hpp)                                *)
(***************************************************************************)
kCanvasPriorityStep == 10

\* operator new: the lowest address not occupied by a live entity.
NewAddress(S) ==
    CHOOSE a \in 1..(Cardinality(S.entities) + 1) :
        /\ a \notin S.entities
        /\ \A b \in 1..(a - 1) : b \in S.entities

\* Variant: the entity joins the live set without a priority record.
add_entity_norecord(S, entity) ==
    [S EXCEPT !.entities = @ \cup {entity},
              !.priority_counter = @ + kCanvasPriorityStep]

\* Variant: the counter is read but not advanced.
add_entity_nostep(S, entity) ==
    [S EXCEPT !.entities = @ \cup {entity},
              !.entity_attributes = Put(@, entity, S.priority_counter)]

add_entity(S, entity) ==
    [S EXCEPT !.entities = @ \cup {entity},
              !.priority_counter = @ + kCanvasPriorityStep,
              !.entity_attributes = Put(@, entity, S.priority_counter + kCanvasPriorityStep)]

\* Variant: a missing entity is ignored instead of reported.
delete_entity_silent(S, entity) == [S EXCEPT !.entities = @ \ {entity}]

delete_entity(S, entity) ==
    IF entity \in S.entities
    THEN [S EXCEPT !.entities = @ \ {entity}]
    ELSE [S EXCEPT !.thrown = TRUE]

\* entity_attributes.at(entity) throws std::out_of_range for an unknown key.
set_entity_priority(S, entity, priority) ==
    IF entity \in DOMAIN S.entity_attributes
    THEN [S EXCEPT !.entity_attributes[entity] = priority]
    ELSE [S EXCEPT !.thrown = TRUE]

get_entity_attr(S, entity) == S.entity_attributes[entity]

\* Entity::Entity registers the new object; draw() constructs it with its config.
draw(S, cfg) ==
    LET entity == NewAddress(S)
    IN  [add_entity(S, entity) EXCEPT !.config = Put(@, entity, cfg)]

\* Entity::~Entity (container set): deregister, then the object is gone.
destroy(S, entity) ==
    [delete_entity(S, entity) EXCEPT !.config = Drop(@, entity)]

\* std::unique_ptr::reset()
reset_ptr(S, entity) == IF entity = NoEntity THEN S ELSE destroy(S, entity)

\* Entity::set_priority
set_priority(S, entity, priority) == set_entity_priority(S, entity, priority)

(***************************************************************************)
(* Painter: style cursor, priorities, history (painter.hpp)                *)
(***************************************************************************)
stroke_palette == <<"black", "red", "green", "blue", "yellow", "magenta", "cyan",
                    "bright_red", "bright_green", "bright_yellow", "bright_blue",
                    "bright_magenta", "bright_cyan">>
stroke_width_options == <<5, 10, 20, 35, 50>>
fill_palette == <<None, Some("black"), Some("red"), Some("green"), Some("blue"),
                  Some("yellow"), Some("magenta"), Some("cyan"), Some("bright_red"),
                  Some("bright_green"), Some("bright_yellow"), Some("bright_blue"),
                  Some("bright_magenta"), Some("bright_cyan")>>
radius_options == <<0, 1, 3, 5, 10, 15>>
preview_color == "mix(foreground,background,0.8)"

kCommittedPriorityStep == 10
kWorkingPriorityBase == 1000000
kInitialNextPriority == 10000
kMenuPriority == 200000

current_stroke_color(S) == stroke_palette[S.stroke_color_index + 1]
current_stroke_width(S) == stroke_width_options[S.stroke_width_index + 1]
current_fill_color(S) == fill_palette[S.fill_color_index + 1]
current_corner_radius(S) == radius_options[S.corner_radius_index + 1]

\* Operators that return a value next to the new state yield [s |-> state, ret |-> value].
\* Variant: next_priority is handed out but not advanced.
allocate_committed_priority_nostep(S) == [s |-> S, ret |-> S.next_priority]

allocate_committed_priority(S) ==
    [s |-> [S EXCEPT !.next_priority = @ + kCommittedPriorityStep],
     ret |-> S.next_priority]

\* Variant: the counter is read but not advanced.
allocate_working_priority_nostep(S) ==
    [s |-> S, ret |-> kWorkingPriorityBase + S.working_priority_counter]

allocate_working_priority(S) ==
    [s |-> [S EXCEPT !.working_priority_counter = @ + 1],
     ret |-> kWorkingPriorityBase + S.working_priority_counter]

push_committed_entity(S, entity) ==
    IF entity = NoEntity THEN S
    ELSE LET a == allocate_committed_priority(S)
             S1 == set_priority(a.s, entity, a.ret)
         IN  [S1 EXCEPT !.drawn_entities =
                            Append(@, [entity |-> entity, priority |-> a.ret])]

replace_top_entity(S, entity) ==
    IF entity = NoEntity THEN S
    ELSE IF S.drawn_entities = <<>> THEN destroy(S, entity)
    ELSE LET priority == Last(S.drawn_entities).priority
             old == Last(S.drawn_entities).entity
             S1 == set_priority(S, entity, priority)
             S2 == [S1 EXCEPT !.drawn_entities[Len(S.drawn_entities)].entity = entity]
         IN  destroy(S2, old)

(***************************************************************************)
(* Painter: menu                                                           *)
(***************************************************************************)
\* Variant: the right and the bottom edge are exclusive.
contains_halfopen(item, point) ==
    /\ point[1] >= item.top_left[1]
    /\ point[1] < item.bottom_right[1]
    /\ point[2] <= item.top_left[2]
    /\ point[2] > item.bottom_right[2]

contains(item, point) ==
    /\ point[1] >= item.top_left[1]
    /\ point[1] <= item.bottom_right[1]
    /\ point[2] <= item.top_left[2]
    /\ point[2] >= item.bottom_right[2]

MenuItem(label, action) ==
    [label |-> label, action |-> action, top_left |-> <<0, 0>>, bottom_right |-> <<0, 0>>]

\* MenuState::layout
layout(M) ==
    LET n == Len(M.items)
        overall_height == IF n = 0 THEN 0 ELSE n * (M.item_height + M.padding) - M.padding
        left == M.anchor[1] - Half(M.width)
        first_top == M.anchor[2] + Half(overall_height)
        top(i) == first_top - (i - 1) * (M.item_height + M.padding)
    IN  [M EXCEPT !.items =
            [i \in 1..n |-> [M.items[i] EXCEPT
                                !.top_left = <<left, top(i)>>,
                                !.bottom_right = <<left + M.width, top(i) - M.item_height>>]]]

close_menu(S) ==
    [S EXCEPT !.menu_state.visible = FALSE,
              !.menu_state.items = <<>>,
              !.menu_state.kind = "None"]

\* Variant: the oldest entry is popped instead of the newest.
undo_last_shape_popfront(S) ==
    IF S.drawn_entities = <<>> THEN S
    ELSE LET S1 == destroy([S EXCEPT !.drawn_entities = Tail(@)],
                           S.drawn_entities[1].entity)
         IN  close_menu([S1 EXCEPT !.committed_polygon = <<>>,
                                   !.committed_rectangle = None,
                                   !.last_committed_shape = "Polygon"])

\* Variant: the menu is closed before the history is looked at.
undo_last_shape_closefirst(S) ==
    IF S.drawn_entities = <<>> THEN close_menu(S)
    ELSE LET S1 == destroy([S EXCEPT !.drawn_entities = Front(@)],
                           Last(S.drawn_entities).entity)
         IN  close_menu([S1 EXCEPT !.committed_polygon = <<>>,
                                   !.committed_rectangle = None,
                                   !.last_committed_shape = "Polygon"])

\* Variant: the popped entry's entity is not destroyed.
undo_last_shape_keepentity(S) ==
    IF S.drawn_entities = <<>> THEN S
    ELSE close_menu([S EXCEPT !.drawn_entities = Front(@),
                              !.committed_polygon = <<>>,
                              !.committed_rectangle = None,
                              !.last_committed_shape = "Polygon"])

\* Variant: undo keeps the committed-geometry snapshot.
undo_last_shape_keepsnapshot(S) ==
    IF S.drawn_entities = <<>> THEN S
    ELSE close_menu(destroy([S EXCEPT !.drawn_entities = Front(@)],
                            Last(S.drawn_entities).entity))

undo_last_shape(S) ==
    IF S.drawn_entities = <<>> THEN S
    ELSE LET S1 == destroy([S EXCEPT !.drawn_entities = Front(@)],
                           Last(S.drawn_entities).entity)
         IN  close_menu([S1 EXCEPT !.committed_polygon = <<>>,
                                   !.committed_rectangle = None,
                                   !.last_committed_shape = "Polygon"])

ensure_menu_layer(S) ==
    IF S.menu_layer # NoEntity THEN S
    ELSE LET entity == NewAddress(S)
             S1 == draw(S, [kind |-> "MenuOverlay"])
         IN  set_priority([S1 EXCEPT !.menu_layer = entity], entity, kMenuPriority)

build_main_menu_items(S) ==
    << MenuItem(<<"Shape", S.active_shape>>, "cycle_shape_type"),
       MenuItem(<<"Stroke color", current_stroke_color(S)>>, "cycle_stroke_color"),
       MenuItem(<<"Stroke width", current_stroke_width(S)>>, "cycle_stroke_width") >>

build_shape_menu_items(S) ==
    << MenuItem(<<"Fill", current_fill_color(S)>>, "cycle_fill_color+rebuild") >>
    \o (IF S.last_committed_shape = "Rectangle"
        THEN << MenuItem(<<"Corner radius", current_corner_radius(S)>>,
                         "cycle_corner_radius+rebuild") >>
        ELSE << >>)

\* CanvasParameters::projection defaults and display size (fixed point / pixels)
proj_left == -50
proj_right == 50
proj_bottom == -50
proj_top == 50
display_width == 800
display_height == 800

canvas_center == << Half(proj_left + proj_right), Half(proj_top + proj_bottom) >>
menu_anchor == canvas_center

cursor_to_world(xpos, ypos) ==
    << proj_left + (xpos * (proj_right - proj_left)) \div display_width,
       proj_top - (ypos * (proj_top - proj_bottom)) \div display_height >>

open_main_menu(S) ==
    LET S1 == ensure_menu_layer(S)
    IN  [S1 EXCEPT !.menu_state =
            layout([@ EXCEPT !.kind = "Main", !.anchor = menu_anchor, !.visible = TRUE,
                             !.items = build_main_menu_items(S1)])]

open_shape_menu(S) ==
    LET S1 == ensure_menu_layer(S)
    IN  [S1 EXCEPT !.menu_state =
            layout([@ EXCEPT !.kind = "ShapeSpecific", !.anchor = menu_anchor,
                             !.visible = TRUE, !.items = build_shape_menu_items(S1)])]

\* Variant: the rebuilt items are not laid out again.
refresh_menu_items_nolayout(S) ==
    IF ~S.menu_state.visible THEN S
    ELSE [S EXCEPT !.menu_state.items =
                        IF S.menu_state.kind = "Main" THEN build_main_menu_items(S)
                        ELSE IF S.menu_state.kind = "ShapeSpecific"
                             THEN build_shape_menu_items(S)
                             ELSE @]

refresh_menu_items(S) ==
    IF ~S.menu_state.visible THEN S
    ELSE [S EXCEPT !.menu_state =
            layout([@ EXCEPT !.items =
                        IF S.menu_state.kind = "Main" THEN build_main_menu_items(S)
                        ELSE IF S.menu_state.kind = "ShapeSpecific"
                             THEN build_shape_menu_items(S)
                             ELSE @])]

(***************************************************************************)
(* Painter: committed shape, style cycling                                 *)
(***************************************************************************)
RECURSIVE destroy_all(_, _)
destroy_all(S, es) ==
    IF es = <<>> THEN S ELSE destroy_all(destroy(S, es[1]), Tail(es))

clear_segments(S) == [destroy_all(S, S.segments) EXCEPT !.segments = <<>>]

clear_polygon_preview(S) ==
    [reset_ptr(S, S.preview_segment) EXCEPT !.preview_segment = NoEntity]

reset_preview_rectangle(S) ==
    [reset_ptr(S, S.preview_rectangle) EXCEPT !.preview_rectangle = NoEntity]

build_committed_entity(S) ==
    IF S.last_committed_shape = "Polygon"
    THEN IF Len(S.committed_polygon) < 3
         THEN [s |-> S, ret |-> NoEntity]
         ELSE [s |-> draw(S, [kind |-> "Polygon",
                              points |-> S.committed_polygon,
                              color |-> current_stroke_color(S),
                              fill_color |-> current_fill_color(S),
                              stroke |-> current_stroke_width(S)]),
               ret |-> NewAddress(S)]
    ELSE IF S.last_committed_shape = "Rectangle" /\ S.committed_rectangle # None
    THEN LET first == S.committed_rectangle[1].first
             second == S.committed_rectangle[1].second
         IN  [s |-> draw(S, [kind |-> "Rectangle",
                             center |-> << Half(first[1] + second[1]),
                                           Half(first[2] + second[2]) >>,
                             width |-> Abs(second[1] - first[1]),
                             height |-> Abs(second[2] - first[2]),
                             corner_radius |-> current_corner_radius(S),
                             color |-> current_stroke_color(S),
                             fill_color |-> current_fill_color(S),
                             stroke |-> current_stroke_width(S)]),
              ret |-> NewAddress(S)]
    ELSE [s |-> S, ret |-> NoEntity]

\* Variant: the rebuilt entity is always pushed as a new entry.
rebuild_committed_shape_push(S, replace_existing) ==
    IF replace_existing /\ S.drawn_entities = <<>> THEN S
    ELSE LET b == build_committed_entity(S)
         IN  IF b.ret = NoEntity THEN S
             ELSE push_committed_entity(b.s, b.ret)

rebuild_committed_shape(S, replace_existing) ==
    IF replace_existing /\ S.drawn_entities = <<>> THEN S
    ELSE LET b == build_committed_entity(S)
         IN  IF b.ret = NoEntity THEN S
             ELSE IF replace_existing THEN replace_top_entity(b.s, b.ret)
             ELSE push_committed_entity(b.s, b.ret)

cycle_shape_type(S) ==
    LET S1 == [S EXCEPT !.active_shape = IF @ = "Polygon" THEN "Rectangle" ELSE "Polygon",
                        !.state = "Idle",
                        !.polygon_points = <<>>,
                        !.rect_first_corner = None,
                        !.rect_second_corner = None]
    IN  reset_preview_rectangle(clear_polygon_preview(clear_segments(S1)))

cycle_stroke_color(S) ==
    rebuild_committed_shape(
        [S EXCEPT !.stroke_color_index = (@ + 1) % Len(stroke_palette)], TRUE)

cycle_stroke_width(S) ==
    rebuild_committed_shape(
        [S EXCEPT !.stroke_width_index = (@ + 1) % Len(stroke_width_options)], TRUE)

\* Variant: the index is advanced without wrapping at the end of the list.
cycle_fill_color_nowrap(S) == [S EXCEPT !.fill_color_index = @ + 1]

cycle_fill_color(S) == [S EXCEPT !.fill_color_index = (@ + 1) % Len(fill_palette)]

cycle_corner_radius(S) == [S EXCEPT !.corner_radius_index = (@ + 1) % Len(radius_options)]

\* std::function<void()> MenuItem::action: the lambdas of build_*_menu_items
invoke(S, action) ==
    CASE action = "cycle_shape_type" -> cycle_shape_type(S)
      [] action = "cycle_stroke_color" -> cycle_stroke_color(S)
      [] action = "cycle_stroke_width" -> cycle_stroke_width(S)
      [] action = "cycle_fill_color+rebuild" ->
             rebuild_committed_shape(cycle_fill_color(S), TRUE)
      [] action = "cycle_corner_radius+rebuild" ->
             rebuild_committed_shape(cycle_corner_radius(S), TRUE)

\* Variant: the item list is not refreshed after the action.
handle_menu_click_norefresh(S, world) ==
    LET hits == {i \in 1..Len(S.menu_state.items) : contains(S.menu_state.items[i], world)}
    IN  IF ~S.menu_state.visible \/ hits = {} THEN [s |-> S, ret |-> FALSE]
        ELSE LET i == CHOOSE i \in hits : \A j \in hits : i <= j
             IN  [s |-> invoke(S, S.menu_state.items[i].action), ret |-> TRUE]

handle_menu_click(S, world) ==
    LET hits == {i \in 1..Len(S.menu_state.items) : contains(S.menu_state.items[i], world)}
    IN  IF ~S.menu_state.visible \/ hits = {} THEN [s |-> S, ret |-> FALSE]
        ELSE LET i == CHOOSE i \in hits : \A j \in hits : i <= j
             IN  [s |-> refresh_menu_items(invoke(S, S.menu_state.items[i].action)),
                  ret |-> TRUE]

(***************************************************************************)
(* Painter: polygon and rectangle drawing                                  *)
(***************************************************************************)
add_segment(S, start, end) ==
    LET entity == NewAddress(S)
        S1 == draw(S, [kind |-> "Line", start |-> start, end |-> end,
                       color |-> current_stroke_color(S),
                       stroke |-> current_stroke_width(S)])
        a == allocate_working_priority(S1)
    IN  [set_priority(a.s, entity, a.ret) EXCEPT !.segments = Append(@, entity)]

add_polygon_point(S, point) ==
    LET S1 == IF S.state = "Idle"
              THEN [S EXCEPT !.polygon_points = <<>>, !.state = "DrawPolygon"]
              ELSE S
        S2 == [S1 EXCEPT !.polygon_points = Append(@, point)]
        n == Len(S2.polygon_points)
        S3 == IF n >= 2
              THEN add_segment(S2, S2.polygon_points[n - 1], S2.polygon_points[n])
              ELSE S2
    IN  clear_polygon_preview(S3)

update_polygon_preview(S, current) ==
    IF S.state # "DrawPolygon" \/ S.polygon_points = <<>>
    THEN clear_polygon_preview(S)
    ELSE IF S.preview_segment = NoEntity
    THEN LET entity == NewAddress(S)
             S1 == draw(S, [kind |-> "Line", start |-> Last(S.polygon_points),
                            end |-> current, color |-> preview_color,
                            stroke |-> current_stroke_width(S)])
             a == allocate_working_priority(S1)
         IN  [set_priority(a.s, entity, a.ret) EXCEPT !.preview_segment = entity]
    ELSE [S EXCEPT !.config[S.preview_segment].start = Last(S.polygon_points),
                   !.config[S.preview_segment].end = current]

\* Variant: cancel_polygon() leaves the state as it is.
cancel_polygon_keepstate(S) ==
    clear_segments(clear_polygon_preview([S EXCEPT !.polygon_points = <<>>]))

cancel_polygon(S) ==
    clear_segments(clear_polygon_preview(
        [S EXCEPT !.polygon_points = <<>>, !.state = "Idle"]))

\* Variant: two points are taken as enough to close and commit a polygon.
finalize_polygon_twopoints(S) ==
    IF S.state # "DrawPolygon" THEN S
    ELSE IF Len(S.polygon_points) < 2 THEN cancel_polygon(S)
    ELSE LET S1 == add_segment(S, Last(S.polygon_points), S.polygon_points[1])
             S2 == [S1 EXCEPT !.committed_polygon = S1.polygon_points,
                              !.last_committed_shape = "Polygon"]
         IN  cancel_polygon(open_shape_menu(rebuild_committed_shape(S2, FALSE)))

finalize_polygon(S) ==
    IF S.state # "DrawPolygon" THEN S
    ELSE IF Len(S.polygon_points) < 3 THEN cancel_polygon(S)
    ELSE LET S1 == add_segment(S, Last(S.polygon_points), S.polygon_points[1])
             S2 == [S1 EXCEPT !.committed_polygon = S1.polygon_points,
                              !.last_committed_shape = "Polygon"]
         IN  cancel_polygon(open_shape_menu(rebuild_committed_shape(S2, FALSE)))

update_rectangle_preview(S) ==
    IF S.state # "DrawRectangle" \/ S.rect_first_corner = None
    THEN reset_preview_rectangle(S)
    ELSE LET second == IF S.rect_second_corner # None THEN S.rect_second_corner[1]
                       ELSE S.last_cursor_world
             first == S.rect_first_corner[1]
             center == << Half(first[1] + second[1]), Half(first[2] + second[2]) >>
             width == Abs(second[1] - first[1])
             height == Abs(second[2] - first[2])
         IN  IF S.preview_rectangle = NoEntity
             THEN LET entity == NewAddress(S)
                      S1 == draw(S, [kind |-> "Rectangle", center |-> center,
                                     width |-> width, height |-> height,
                                     corner_radius |-> 0, color |-> preview_color,
                                     fill_color |-> None, stroke |-> 10])
                      a == allocate_working_priority(S1)
                  IN  [set_priority(a.s, entity, a.ret) EXCEPT !.preview_rectangle = entity]
             ELSE [S EXCEPT !.config[S.preview_rectangle].center = center,
                            !.config[S.preview_rectangle].width = width,
                            !.config[S.preview_rectangle].height = height]

\* Variant: every press moves the first corner.
handle_rectangle_click_movefirst(S, point) ==
    LET S1 == IF S.state = "Idle"
              THEN reset_preview_rectangle(
                       [S EXCEPT !.state = "DrawRectangle",
                                 !.rect_first_corner = None,
                                 !.rect_second_corner = None])
              ELSE S
    IN  [S1 EXCEPT !.rect_first_corner = Some(point)]

handle_rectangle_click(S, point) ==
    LET S1 == IF S.state = "Idle"
              THEN reset_preview_rectangle(
                       [S EXCEPT !.state = "DrawRectangle",
                                 !.rect_first_corner = None,
                                 !.rect_second_corner = None])
              ELSE S
    IN  IF S1.rect_first_corner = None
        THEN [S1 EXCEPT !.rect_first_corner = Some(point)]
        ELSE update_rectangle_preview([S1 EXCEPT !.rect_second_corner = Some(point)])

\* Variant: cancel_rectangle() keeps the preview rectangle.
cancel_rectangle_keeppreview(S) ==
    [S EXCEPT !.rect_first_corner = None, !.rect_second_corner = None,
              !.state = "Idle"]

cancel_rectangle(S) ==
    [reset_preview_rectangle([S EXCEPT !.rect_first_corner = None,
                                       !.rect_second_corner = None])
        EXCEPT !.state = "Idle"]

\* Variant: open_shape_menu() is not called after the commit.
finalize_rectangle_nomenu(S) ==
    IF S.state # "DrawRectangle" THEN S
    ELSE IF S.rect_first_corner = None \/ S.rect_second_corner = None
    THEN cancel_rectangle(S)
    ELSE LET S1 == [S EXCEPT !.committed_rectangle =
                                 Some([first |-> S.rect_first_corner[1],
                                       second |-> S.rect_second_corner[1]]),
                             !.last_committed_shape = "Rectangle"]
         IN  cancel_rectangle(rebuild_committed_shape(S1, FALSE))

finalize_rectangle(S) ==
    IF S.state # "DrawRectangle" THEN S
    ELSE IF S.rect_first_corner = None \/ S.rect_second_corner = None
    THEN cancel_rectangle(S)
    ELSE LET S1 == [S EXCEPT !.committed_rectangle =
                                 Some([first |-> S.rect_first_corner[1],
                                       second |-> S.rect_second_corner[1]]),
                             !.last_committed_shape = "Rectangle"]
         IN  cancel_rectangle(open_shape_menu(rebuild_committed_shape(S1, FALSE)))

(***************************************************************************)
(* Painter: the ActionHandler entry points                                 *)
(***************************************************************************)
\* Variant: undo only from Idle with the menu hidden.
on_key_undo_guarded(S, key, action) ==
    IF action # GLFW_PRESS THEN S
    ELSE IF key = GLFW_KEY_SPACE /\ S.state = "Idle" THEN open_main_menu(S)
    ELSE IF key = GLFW_KEY_ESCAPE
    THEN IF S.menu_state.visible THEN close_menu(S)
         ELSE IF S.state = "DrawPolygon" THEN finalize_polygon(S)
         ELSE IF S.state = "DrawRectangle" THEN finalize_rectangle(S)
         ELSE S
    ELSE IF key = GLFW_KEY_BACKSPACE /\ S.state = "Idle" /\ ~S.menu_state.visible
    THEN undo_last_shape(S)
    ELSE S

\* Variant: Space opens the main menu in every state.
on_key_space_anytime(S, key, action) ==
    IF action # GLFW_PRESS THEN S
    ELSE IF key = GLFW_KEY_SPACE THEN open_main_menu(S)
    ELSE IF key = GLFW_KEY_ESCAPE
    THEN IF S.menu_state.visible THEN close_menu(S)
         ELSE IF S.state = "DrawPolygon" THEN finalize_polygon(S)
         ELSE IF S.state = "DrawRectangle" THEN finalize_rectangle(S)
         ELSE S
    ELSE IF key = GLFW_KEY_BACKSPACE THEN undo_last_shape(S)
    ELSE S

on_key(S, key, action) ==
    IF action # GLFW_PRESS THEN S
    ELSE IF key = GLFW_KEY_SPACE /\ S.state = "Idle" THEN open_main_menu(S)
    ELSE IF key = GLFW_KEY_ESCAPE
    THEN IF S.menu_state.visible THEN close_menu(S)
         ELSE IF S.state = "DrawPolygon" THEN finalize_polygon(S)
         ELSE IF S.state = "DrawRectangle" THEN finalize_rectangle(S)
         ELSE S
    ELSE IF key = GLFW_KEY_BACKSPACE THEN undo_last_shape(S)
    ELSE S

\* Variant: the return after the menu branch is missing.
on_mouse_button_fallthrough(S, button, action, xpos, ypos) ==
    IF button # GLFW_MOUSE_BUTTON_LEFT \/ action # GLFW_PRESS THEN S
    ELSE LET world == cursor_to_world(xpos, ypos)
             S1 == [S EXCEPT !.last_cursor_world = world]
             S2 == IF S1.menu_state.visible
                   THEN LET h == handle_menu_click(S1, world)
                        IN  IF ~h.ret THEN close_menu(h.s) ELSE h.s
                   ELSE S1
         IN  IF S2.active_shape = "Polygon" THEN add_polygon_point(S2, world)
             ELSE handle_rectangle_click(S2, world)

\* (xpos, ypos) is what glfwGetCursorPos reports at the time of the event.
on_mouse_button(S, button, action, xpos, ypos) ==
    IF button # GLFW_MOUSE_BUTTON_LEFT \/ action # GLFW_PRESS THEN S
    ELSE LET world == cursor_to_world(xpos, ypos)
             S1 == [S EXCEPT !.last_cursor_world = world]
         IN  IF S1.menu_state.visible
             THEN LET h == handle_menu_click(S1, world)
                  IN  IF ~h.ret THEN close_menu(h.s) ELSE h.s
             ELSE IF S1.active_shape = "Polygon" THEN add_polygon_point(S1, world)
             ELSE handle_rectangle_click(S1, world)

on_mouse_move(S, xpos, ypos) ==
    LET S1 == [S EXCEPT !.last_cursor_world = cursor_to_world(xpos, ypos)]
    IN  IF S1.state = "DrawPolygon" THEN update_polygon_preview(S1, S1.last_cursor_world)
        ELSE IF S1.state = "DrawRectangle" THEN update_rectangle_preview(S1)
        ELSE S1

(***************************************************************************)
(* Drafts (drafts.hpp).  The DraftContext callbacks are bound to the       *)
(* Painter: style_provider reads the style cursor, the priority allocator  *)
(* is allocate_working_priority and commit_callback stores the DraftCommit *)
(* (and so keeps its entity alive).  A rebuild closure is the record of    *)
(* the geometry it captured.                                               *)
(***************************************************************************)
current_style(S) ==
    [stroke_color |-> current_stroke_color(S), stroke_width |-> current_stroke_width(S),
     fill_color |-> current_fill_color(S), corner_radius |-> current_corner_radius(S)]

commit(S, commit_info) == [S EXCEPT !.commits = Append(@, commit_info)]

\* canvas()->draw(cfg) followed by set_priority(allocate_working_priority())
draw_working(S, cfg) ==
    LET entity == NewAddress(S)
        a == allocate_working_priority(draw(S, cfg))
    IN  [s |-> set_priority(a.s, entity, a.ret), ret |-> entity]

\* std::hypot, rounded down to the fixed-point grid (0 exactly when dx = dy = 0)
Hypot(dx, dy) ==
    CHOOSE r \in 0..(Abs(dx) + Abs(dy)) :
        r * r <= dx * dx + dy * dy /\ dx * dx + dy * dy < (r + 1) * (r + 1)

\* style.corner_radius > 0.0 ? std::optional<double>(style.corner_radius) : std::nullopt
OptRadius(style) == IF style.corner_radius > 0 THEN Some(style.corner_radius) ELSE None

\* ---- LineDraft ----
\* Variant: the preview line is kept.
LineDraft_reset_keeppreview(S) == [S EXCEPT !.first_point_ = None]

LineDraft_reset(S) ==
    [reset_ptr([S EXCEPT !.first_point_ = None], S.preview_line_)
        EXCEPT !.preview_line_ = NoEntity]

LineDraft_ensure_preview_line(S) ==
    IF S.preview_line_ # NoEntity THEN S
    ELSE LET origin == IF S.first_point_ # None THEN S.first_point_[1] ELSE <<0, 0>>
             d == draw_working(S, [kind |-> "Line", start |-> origin, end |-> origin,
                                   color |-> preview_color,
                                   stroke |-> current_style(S).stroke_width])
         IN  [d.s EXCEPT !.preview_line_ = d.ret]

LineDraft_update_preview(S, world) ==
    LET S1 == LineDraft_ensure_preview_line(S)
        S2 == IF S1.first_point_ # None
              THEN [S1 EXCEPT !.config[S1.preview_line_].start = S1.first_point_[1]]
              ELSE S1
    IN  [S2 EXCEPT !.config[S2.preview_line_].end = world]

LineDraft_make_commit(S, start, end) ==
    LET style == current_style(S)
    IN  [s |-> draw(S, [kind |-> "Line", start |-> start, end |-> end,
                        color |-> style.stroke_color, stroke |-> style.stroke_width]),
         ret |-> [entity |-> NewAddress(S),
                  rebuild |-> [kind |-> "Line", start |-> start, end |-> end],
                  shape_type |-> "Line"]]

\* Variant: the anchor is not cleared by the second press.
LineDraft_on_mouse_button_keepanchor(S, button, action, world) ==
    IF button # GLFW_MOUSE_BUTTON_LEFT \/ action # GLFW_PRESS THEN S
    ELSE IF S.first_point_ = None
    THEN LineDraft_update_preview([S EXCEPT !.first_point_ = Some(world)], world)
    ELSE LET R == [reset_ptr(S, S.preview_line_) EXCEPT !.preview_line_ = NoEntity]
             m == LineDraft_make_commit(R, S.first_point_[1], world)
         IN  commit(m.s, m.ret)

LineDraft_on_mouse_button(S, button, action, world) ==
    IF button # GLFW_MOUSE_BUTTON_LEFT \/ action # GLFW_PRESS THEN S
    ELSE IF S.first_point_ = None
    THEN LineDraft_update_preview([S EXCEPT !.first_point_ = Some(world)], world)
    ELSE LET m == LineDraft_make_commit(LineDraft_reset(S), S.first_point_[1], world)
         IN  commit(m.s, m.ret)

LineDraft_on_mouse_move(S, world) ==
    IF S.first_point_ = None THEN S ELSE LineDraft_update_preview(S, world)

LineDraft_on_key(S, key, action) ==
    IF action # GLFW_PRESS THEN S
    ELSE IF key = GLFW_KEY_ESCAPE THEN LineDraft_reset(S)
    ELSE S

\* ---- RectangleDraft ----
RectangleDraft_reset(S) ==
    [reset_ptr([S EXCEPT !.first_corner_ = None], S.preview_rectangle_)
        EXCEPT !.preview_rectangle_ = NoEntity]

\* Variant: width and height without std::abs.
RectangleDraft_geometry_signed(a, b) ==
    [center |-> << Half(a[1] + b[1]), Half(a[2] + b[2]) >>,
     width |-> a[1] - b[1],
     height |-> a[2] - b[2]]

RectangleDraft_geometry(a, b) ==
    [center |-> << Half(a[1] + b[1]), Half(a[2] + b[2]) >>,
     width |-> Abs(a[1] - b[1]),
     height |-> Abs(a[2] - b[2])]

RectangleDraft_update_preview(S, world) ==
    IF S.first_corner_ = None THEN S
    ELSE LET style == current_style(S)
             g == RectangleDraft_geometry(S.first_corner_[1], world)
             rect == [kind |-> "Rectangle", center |-> g.center, width |-> g.width,
                      height |-> g.height, corner_radius |-> OptRadius(style),
                      color |-> preview_color, fill_color |-> None,
                      stroke |-> style.stroke_width]
         IN  IF S.preview_rectangle_ = NoEntity
             THEN LET d == draw_working(S, rect)
                  IN  [d.s EXCEPT !.preview_rectangle_ = d.ret]
             ELSE [S EXCEPT !.config[S.preview_rectangle_] = rect]

RectangleDraft_make_commit(S, a, b) ==
    LET style == current_style(S)
        g == RectangleDraft_geometry(a, b)
    IN  [s |-> draw(S, [kind |-> "Rectangle", center |-> g.center, width |-> g.width,
                        height |-> g.height, corner_radius |-> OptRadius(style),
                        color |-> style.stroke_color, fill_color |-> style.fill_color,
                        stroke |-> style.stroke_width]),
         ret |-> [entity |-> NewAddress(S),
                  rebuild |-> [kind |-> "Rectangle", corners |-> <<a, b>>],
                  shape_type |-> "Rectangle"]]

RectangleDraft_on_mouse_button(S, button, action, world) ==
    IF button # GLFW_MOUSE_BUTTON_LEFT \/ action # GLFW_PRESS THEN S
    ELSE IF S.first_corner_ = None THEN [S EXCEPT !.first_corner_ = Some(world)]
    ELSE LET m == RectangleDraft_make_commit(RectangleDraft_reset(S),
                                             S.first_corner_[1], world)
         IN  commit(m.s, m.ret)

RectangleDraft_on_mouse_move(S, world) ==
    IF S.first_corner_ = None THEN S ELSE RectangleDraft_update_preview(S, world)

RectangleDraft_on_key(S, key, action) ==
    IF action # GLFW_PRESS THEN S
    ELSE IF key = GLFW_KEY_ESCAPE THEN RectangleDraft_reset(S)
    ELSE S

\* ---- PolygonDraft and PolylineDraft: the members they have in common ----
\* Variant: reset() forgets segments_.clear().
PolyDraft_reset_keepsegments(S) ==
    [reset_ptr([S EXCEPT !.points_ = <<>>], S.preview_segment_)
        EXCEPT !.preview_segment_ = NoEntity]

PolyDraft_reset(S) ==
    LET S1 == destroy_all([S EXCEPT !.points_ = <<>>], S.segments_)
    IN  [reset_ptr([S1 EXCEPT !.segments_ = <<>>], S.preview_segment_)
            EXCEPT !.preview_segment_ = NoEntity]

PolyDraft_add_segment(S, start, end) ==
    LET style == current_style(S)
        d == draw_working(S, [kind |-> "Line", start |-> start, end |-> end,
                              color |-> style.stroke_color,
                              stroke |-> style.stroke_width])
    IN  [d.s EXCEPT !.segments_ = Append(@, d.ret)]

\* Variant: add_point leaves the preview segment in place.
PolyDraft_add_point_keeppreview(S, point) ==
    LET S1 == [S EXCEPT !.points_ = Append(@, point)]
        n == Len(S1.points_)
    IN  IF n >= 2 THEN PolyDraft_add_segment(S1, S1.points_[n - 1], S1.points_[n])
        ELSE S1

PolyDraft_add_point(S, point) ==
    LET S1 == [S EXCEPT !.points_ = Append(@, point)]
        n == Len(S1.points_)
        S2 == IF n >= 2 THEN PolyDraft_add_segment(S1, S1.points_[n - 1], S1.points_[n])
              ELSE S1
    IN  [reset_ptr(S2, S2.preview_segment_) EXCEPT !.preview_segment_ = NoEntity]

PolyDraft_update_preview(S, world) ==
    IF S.points_ = <<>>
    THEN [reset_ptr(S, S.preview_segment_) EXCEPT !.preview_segment_ = NoEntity]
    ELSE IF S.preview_segment_ = NoEntity
    THEN LET d == draw_working(S, [kind |-> "Line", start |-> Last(S.points_),
                                   end |-> world, color |-> preview_color,
                                   stroke |-> current_style(S).stroke_width])
         IN  [d.s EXCEPT !.preview_segment_ = d.ret]
    ELSE [S EXCEPT !.config[S.preview_segment_].start = Last(S.points_),
                   !.config[S.preview_segment_].end = world]

\* Variant: the button is not tested, only the action.
PolyDraft_on_mouse_button_anybutton(S, button, action, world) ==
    IF action # GLFW_PRESS THEN S
    ELSE PolyDraft_add_point(S, world)

PolyDraft_on_mouse_button(S, button, action, world) ==
    IF button # GLFW_MOUSE_BUTTON_LEFT \/ action # GLFW_PRESS THEN S
    ELSE PolyDraft_add_point(S, world)

\* ---- PolygonDraft ----
PolygonDraft_make_commit(S, points) ==
    IF Len(points) < 3 THEN [s |-> S, ret |-> [entity |-> NoEntity]]
    ELSE LET style == current_style(S)
         IN  [s |-> draw(S, [kind |-> "Polygon", points |-> points,
                             color |-> style.stroke_color,
                             fill_color |-> style.fill_color,
                             stroke |-> style.stroke_width]),
              ret |-> [entity |-> NewAddress(S),
                       rebuild |-> [kind |-> "Polygon", points |-> points],
                       shape_type |-> "Polygon"]]

\* Variant: reset() runs before the points are copied.
PolygonDraft_on_key_resetfirst(S, key, action) ==
    IF action # GLFW_PRESS THEN S
    ELSE IF key = GLFW_KEY_ESCAPE \/ key = GLFW_KEY_ENTER
    THEN IF Len(S.points_) >= 3
         THEN LET S1 == PolyDraft_reset(S)
                  m == PolygonDraft_make_commit(S1, S1.points_)
              IN  commit(m.s, m.ret)
         ELSE PolyDraft_reset(S)
    ELSE S

PolygonDraft_on_key(S, key, action) ==
    IF action # GLFW_PRESS THEN S
    ELSE IF key = GLFW_KEY_ESCAPE \/ key = GLFW_KEY_ENTER
    THEN IF Len(S.points_) >= 3
         THEN LET m == PolygonDraft_make_commit(PolyDraft_reset(S), S.points_)
              IN  commit(m.s, m.ret)
         ELSE PolyDraft_reset(S)
    ELSE S

\* ---- PolylineDraft ----
PolylineDraft_make_commit(S, points) ==
    IF Len(points) < 2 THEN [s |-> S, ret |-> [entity |-> NoEntity]]
    ELSE LET style == current_style(S)
         IN  [s |-> draw(S, [kind |-> "Polyline", points |-> points,
                             color |-> style.stroke_color,
                             stroke |-> style.stroke_width]),
              ret |-> [entity |-> NewAddress(S),
                       rebuild |-> [kind |-> "Polyline", points |-> points],
                       shape_type |-> "Polyline"]]

PolylineDraft_on_key(S, key, action) ==
    IF action # GLFW_PRESS THEN S
    ELSE LET S1 == IF (key = GLFW_KEY_ENTER \/ key = GLFW_KEY_ESCAPE) /\ Len(S.points_) >= 2
                   THEN LET m == PolylineDraft_make_commit(PolyDraft_reset(S), S.points_)
                        IN  commit(m.s, m.ret)
                   ELSE S
         IN  IF key = GLFW_KEY_ESCAPE THEN PolyDraft_reset(S1) ELSE S1

\* ---- CircleDraft ----
CircleDraft_reset(S) ==
    [reset_ptr([S EXCEPT !.center_ = None], S.preview_circle_)
        EXCEPT !.preview_circle_ = NoEntity]

CircleDraft_distance(a, b) == Hypot(a[1] - b[1], a[2] - b[2])

CircleDraft_update_preview(S, world) ==
    IF S.center_ = None THEN S
    ELSE LET radius == CircleDraft_distance(S.center_[1], world)
             circle == [kind |-> "Circle", center |-> S.center_[1], radius |-> radius,
                        color |-> preview_color, fill_color |-> None,
                        stroke |-> current_style(S).stroke_width]
         IN  IF radius <= 0
             THEN [reset_ptr(S, S.preview_circle_) EXCEPT !.preview_circle_ = NoEntity]
             ELSE IF S.preview_circle_ = NoEntity
             THEN LET d == draw_working(S, circle)
                  IN  [d.s EXCEPT !.preview_circle_ = d.ret]
             ELSE [S EXCEPT !.config[S.preview_circle_] = circle]

CircleDraft_make_commit(S, center, radius) ==
    LET style == current_style(S)
    IN  [s |-> draw(S, [kind |-> "Circle", center |-> center, radius |-> radius,
                        color |-> style.stroke_color, fill_color |-> style.fill_color,
                        stroke |-> style.stroke_width]),
         ret |-> [entity |-> NewAddress(S),
                  rebuild |-> [kind |-> "Circle", center |-> center, radius |-> radius],
                  shape_type |-> "Circle"]]

\* Variant: the radius <= 0.0 test is missing.
CircleDraft_on_mouse_button_noguard(S, button, action, world) ==
    IF button # GLFW_MOUSE_BUTTON_LEFT \/ action # GLFW_PRESS THEN S
    ELSE IF S.center_ = None THEN [S EXCEPT !.center_ = Some(world)]
    ELSE LET radius == CircleDraft_distance(S.center_[1], world)
             m == CircleDraft_make_commit(CircleDraft_reset(S), S.center_[1], radius)
         IN  commit(m.s, m.ret)

CircleDraft_on_mouse_button(S, button, action, world) ==
    IF button # GLFW_MOUSE_BUTTON_LEFT \/ action # GLFW_PRESS THEN S
    ELSE IF S.center_ = None THEN [S EXCEPT !.center_ = Some(world)]
    ELSE LET radius == CircleDraft_distance(S.center_[1], world)
         IN  IF radius <= 0 THEN CircleDraft_reset(S)
             ELSE LET m == CircleDraft_make_commit(CircleDraft_reset(S),
                                                   S.center_[1], radius)
                  IN  commit(m.s, m.ret)

CircleDraft_on_mouse_move(S, world) ==
    IF S.center_ = None THEN S ELSE CircleDraft_update_preview(S, world)

CircleDraft_on_key(S, key, action) ==
    IF action # GLFW_PRESS THEN S
    ELSE IF key = GLFW_KEY_ESCAPE THEN CircleDraft_reset(S)
    ELSE S

\* ---- virtual dispatch on the active Draft ----
\* Variant: the rectangle closure passes style.corner_radius on unconditionally.
DraftCommit_rebuild_rawradius(S, closure, style) ==
    LET cfg ==
          CASE closure.kind = "Line" ->
                 [kind |-> "Line", start |-> closure.start, end |-> closure.end,
                  color |-> style.stroke_color, stroke |-> style.stroke_width]
            [] closure.kind = "Rectangle" ->
                 LET first == closure.corners[1]
                     second == closure.corners[2]
                 IN  [kind |-> "Rectangle",
                      center |-> << Half(first[1] + second[1]), Half(first[2] + second[2]) >>,
                      width |-> Abs(first[1] - second[1]),
                      height |-> Abs(first[2] - second[2]),
                      corner_radius |-> Some(style.corner_radius),
                      color |-> style.stroke_color, fill_color |-> style.fill_color,
                      stroke |-> style.stroke_width]
            [] closure.kind = "Polygon" ->
                 [kind |-> "Polygon", points |-> closure.points,
                  color |-> style.stroke_color, fill_color |-> style.fill_color,
                  stroke |-> style.stroke_width]
            [] closure.kind = "Polyline" ->
                 [kind |-> "Polyline", points |-> closure.points,
                  color |-> style.stroke_color, stroke |-> style.stroke_width]
            [] closure.kind = "Circle" ->
                 [kind |-> "Circle", center |-> closure.center, radius |-> closure.radius,
                  color |-> style.stroke_color, fill_color |-> style.fill_color,
                  stroke |-> style.stroke_width]
    IN  [s |-> draw(S, cfg), ret |-> NewAddress(S)]

\* Variant: the polygon closure leaves the fill color out.
DraftCommit_rebuild_nofill(S, closure, style) ==
    LET cfg ==
          CASE closure.kind = "Line" ->
                 [kind |-> "Line", start |-> closure.start, end |-> closure.end,
                  color |-> style.stroke_color, stroke |-> style.stroke_width]
            [] closure.kind = "Rectangle" ->
                 LET first == closure.corners[1]
                     second == closure.corners[2]
                 IN  [kind |-> "Rectangle",
                      center |-> << Half(first[1] + second[1]), Half(first[2] + second[2]) >>,
                      width |-> Abs(first[1] - second[1]),
                      height |-> Abs(first[2] - second[2]),
                      corner_radius |-> OptRadius(style),
                      color |-> style.stroke_color, fill_color |-> style.fill_color,
                      stroke |-> style.stroke_width]
            [] closure.kind = "Polygon" ->
                 [kind |-> "Polygon", points |-> closure.points,
                  color |-> style.stroke_color, fill_color |-> None,
                  stroke |-> style.stroke_width]
            [] closure.kind = "Polyline" ->
                 [kind |-> "Polyline", points |-> closure.points,
                  color |-> style.stroke_color, stroke |-> style.stroke_width]
            [] closure.kind = "Circle" ->
                 [kind |-> "Circle", center |-> closure.center, radius |-> closure.radius,
                  color |-> style.stroke_color, fill_color |-> style.fill_color,
                  stroke |-> style.stroke_width]
    IN  [s |-> draw(S, cfg), ret |-> NewAddress(S)]

\* DraftCommit::rebuild(canvas, style): the closure each make_commit returns,
\* applied to the geometry it captured
DraftCommit_rebuild(S, closure, style) ==
    LET cfg ==
          CASE closure.kind = "Line" ->
                 [kind |-> "Line", start |-> closure.start, end |-> closure.end,
                  color |-> style.stroke_color, stroke |-> style.stroke_width]
            [] closure.kind = "Rectangle" ->
                 LET first == closure.corners[1]
                     second == closure.corners[2]
                 IN  [kind |-> "Rectangle",
                      center |-> << Half(first[1] + second[1]), Half(first[2] + second[2]) >>,
                      width |-> Abs(first[1] - second[1]),
                      height |-> Abs(first[2] - second[2]),
                      corner_radius |-> OptRadius(style),
                      color |-> style.stroke_color, fill_color |-> style.fill_color,
                      stroke |-> style.stroke_width]
            [] closure.kind = "Polygon" ->
                 [kind |-> "Polygon", points |-> closure.points,
                  color |-> style.stroke_color, fill_color |-> style.fill_color,
                  stroke |-> style.stroke_width]
            [] closure.kind = "Polyline" ->
                 [kind |-> "Polyline", points |-> closure.points,
                  color |-> style.stroke_color, stroke |-> style.stroke_width]
            [] closure.kind = "Circle" ->
                 [kind |-> "Circle", center |-> closure.center, radius |-> closure.radius,
                  color |-> style.stroke_color, fill_color |-> style.fill_color,
                  stroke |-> style.stroke_width]
    IN  [s |-> draw(S, cfg), ret |-> NewAddress(S)]

Draft_on_mouse_button(S, button, action, world) ==
    CASE S.draft_kind = "Line" -> LineDraft_on_mouse_button(S, button, action, world)
      [] S.draft_kind = "Rectangle" ->
             RectangleDraft_on_mouse_button(S, button, action, world)
      [] S.draft_kind \in {"Polygon", "Polyline"} ->
             PolyDraft_on_mouse_button(S, button, action, world)
      [] S.draft_kind = "Circle" -> CircleDraft_on_mouse_button(S, button, action, world)

Draft_on_mouse_move(S, world) ==
    CASE S.draft_kind = "Line" -> LineDraft_on_mouse_move(S, world)
      [] S.draft_kind = "Rectangle" -> RectangleDraft_on_mouse_move(S, world)
      [] S.draft_kind \in {"Polygon", "Polyline"} -> PolyDraft_update_preview(S, world)
      [] S.draft_kind = "Circle" -> CircleDraft_on_mouse_move(S, world)

Draft_on_key(S, key, action) ==
    CASE S.draft_kind = "Line" -> LineDraft_on_key(S, key, action)
      [] S.draft_kind = "Rectangle" -> RectangleDraft_on_key(S, key, action)
      [] S.draft_kind = "Polygon" -> PolygonDraft_on_key(S, key, action)
      [] S.draft_kind = "Polyline" -> PolylineDraft_on_key(S, key, action)
      [] S.draft_kind = "Circle" -> CircleDraft_on_key(S, key, action)

Draft_reset(S) ==
    CASE S.draft_kind = "Line" -> LineDraft_reset(S)
      [] S.draft_kind = "Rectangle" -> RectangleDraft_reset(S)
      [] S.draft_kind = "Polygon" -> PolyDraft_reset(S)
      [] S.draft_kind = "Polyline" -> PolyDraft_reset(S)
      [] S.draft_kind = "Circle" -> CircleDraft_reset(S)

(***************************************************************************)
(* Bounds of the model                                                     *)
(***************************************************************************)
MaxAdds == 5            \* entities constructed in one explored session
MaxCycles == 1          \* style-cursor advances in one explored session
MaxCommits == 2         \* DraftCommits handed to commit_callback in one explored session
MaxDraftAdds == 5       \* entities constructed in one explored session of a Draft

\* Cursor positions in window pixels; their world points are (-1,0.8), (0,0), (1,-0.8).
CursorSet == { <<320, 336>>, <<400, 400>>, <<480, 464>> }

\* World points handed to a Draft: (-1,-1), (1,1).
DraftPoints == { <<-10, -10>>, <<10, 10>> }

DraftKinds == {"Line", "Rectangle", "Polygon", "Polyline", "Circle"}
DraftKeys == {GLFW_KEY_ESCAPE, GLFW_KEY_ENTER, GLFW_KEY_SPACE}

\* Priorities a Canvas client passes to set_entity_priority.
ClientPriorities == {0, kMenuPriority}

(***************************************************************************)
(* Initial state: a Canvas and a Painter attached to it (Painter::canvas   *)
(* is set by Canvas::attach_handler before the first callback can run).    *)
(***************************************************************************)
InitTeardown ==
    /\ canvas_alive = TRUE
    /\ detached = {}
    /\ fault = ""

InitCanvas ==
    /\ InitTeardown
    /\ entities = {}
    /\ entity_attributes = << >>
    /\ priority_counter = 0
    /\ config = << >>
    /\ thrown = FALSE

InitMenuState ==
    [kind |-> "None", visible |-> FALSE, anchor |-> <<0, 0>>, width |-> 40,
     item_height |-> 8, padding |-> 2, items |-> <<>>]

InitPainter ==
    /\ state = "Idle"
    /\ active_shape = "Polygon"
    /\ last_committed_shape = "Polygon"
    /\ polygon_points = <<>>
    /\ committed_polygon = <<>>
    /\ committed_rectangle = None
    /\ segments = <<>>
    /\ preview_segment = NoEntity
    /\ preview_rectangle = NoEntity
    /\ rect_first_corner = None
    /\ rect_second_corner = None
    /\ menu_state = InitMenuState
    /\ menu_layer = NoEntity
    /\ last_cursor_world = <<0, 0>>
    /\ stroke_color_index = 0
    /\ stroke_width_index = 1
    /\ fill_color_index = 0
    /\ corner_radius_index = 0
    /\ drawn_entities = <<>>
    /\ next_priority = kInitialNextPriority
    /\ working_priority_counter = 0

InitDraft ==
    /\ first_point_ = None
    /\ preview_line_ = NoEntity
    /\ first_corner_ = None
    /\ preview_rectangle_ = NoEntity
    /\ points_ = <<>>
    /\ segments_ = <<>>
    /\ preview_segment_ = NoEntity
    /\ center_ = None
    /\ preview_circle_ = NoEntity
    /\ commits = <<>>

InitObs ==
    /\ add_order = <<>>
    /\ overridden = {}
    /\ absent_delete = None
    /\ frame = None
    /\ trail = ""
    /\ pre_commit = <<>>
    /\ committed_entity = NoEntity
    /\ p_event = ""
    /\ last_commits = 0
    /\ d_event = ""
    /\ d_presses = <<>>
    /\ d_recorded = <<>>
    /\ d_done = FALSE
    /\ d_others = {}

Init ==
    /\ InitCanvas /\ InitPainter /\ InitDraft /\ InitObs
    /\ probe = None
    /\ draft_kind = "None"

\* A long-running session: the Painter after AgedRounds rounds of
\*   press, press, Escape (commit a rectangle), Backspace (undo it)
\* that follow Space, a press on "Shape: Polygon" and Escape.  Undo returns
\* neither next_priority nor working_priority_counter, so both keep growing.
AgedRounds ==
    (kWorkingPriorityBase - kInitialNextPriority) \div (kCommittedPriorityStep - 1) + 1

AgedState(k) ==
    /\ entities = {1}
    /\ entity_attributes = << kMenuPriority,
                              kWorkingPriorityBase + (k - 1),
                              kInitialNextPriority + kCommittedPriorityStep * (k - 1) >>
    /\ priority_counter = kCanvasPriorityStep * (1 + 2 * k)
    /\ config = << [kind |-> "MenuOverlay"] >>
    /\ thrown = FALSE
    /\ state = "Idle"
    /\ active_shape = "Rectangle"
    /\ last_committed_shape = "Polygon"
    /\ polygon_points = <<>>
    /\ committed_polygon = <<>>
    /\ committed_rectangle = None
    /\ segments = <<>>
    /\ preview_segment = NoEntity
    /\ preview_rectangle = NoEntity
    /\ rect_first_corner = None
    /\ rect_second_corner = None
    /\ menu_state = InitMenuState
    /\ menu_layer = 1
    /\ last_cursor_world = <<0, 0>>
    /\ stroke_color_index = 0
    /\ stroke_width_index = 1
    /\ fill_color_index = 0
    /\ corner_radius_index = 0
    /\ drawn_entities = <<>>
    /\ next_priority = kInitialNextPriority + kCommittedPriorityStep * k
    /\ working_priority_counter = k

InitAged ==
    /\ AgedState(AgedRounds) /\ InitTeardown /\ InitDraft /\ InitObs
    /\ probe = None
    /\ draft_kind = "None"

InitDrafting ==
    /\ InitCanvas /\ InitPainter /\ InitDraft /\ InitObs
    /\ probe = None
    /\ draft_kind \in DraftKinds

(***************************************************************************)
(* Session bounds                                                          *)
(***************************************************************************)
CyclesUsed(S) ==
    S.stroke_color_index + (S.stroke_width_index - 1) + S.fill_color_index
        + S.corner_radius_index

\* priority_counter at the start of the explored session
SessionStart(S) ==
    IF S.priority_counter >= kCanvasPriorityStep * (1 + 2 * AgedRounds)
    THEN kCanvasPriorityStep * (2 * AgedRounds)   \* the overlay counts, as in a fresh session
    ELSE 0

WithinBounds(S) ==
    /\ S.priority_counter - SessionStart(S) <= kCanvasPriorityStep * MaxAdds
    /\ CyclesUsed(S) <= MaxCycles
    /\ Len(S.commits) <= MaxCommits

(***************************************************************************)
(* Painter events: one handler call each, run to completion                *)
(***************************************************************************)
PainterStep(S, event) ==
    /\ WithinBounds(S)
    /\ Becomes(S)
    /\ p_event' = event
    /\ LET appended == Len(S.drawn_entities) > Len(drawn_entities)
           undone == ~appended /\ event = GLFW_KEY_BACKSPACE /\ trail = "commit"
           popped == Len(S.drawn_entities) < Len(drawn_entities)
       IN  /\ trail' = IF appended THEN "commit"
                       ELSE IF undone THEN "commit-undo"
                       ELSE IF popped THEN "undo" ELSE ""
           /\ pre_commit' = IF appended THEN drawn_entities
                            ELSE IF undone THEN pre_commit ELSE <<>>
           /\ committed_entity' = IF appended THEN Last(S.drawn_entities).entity
                                  ELSE IF undone THEN committed_entity ELSE NoEntity
    /\ UNCHANGED <<canvas_obs, draft_obs, probe, teardown_vars>>

KeyPress(key) ==
    /\ ~thrown
    /\ PainterStep(on_key(Cur, key, GLFW_PRESS),
                   IF key = GLFW_KEY_ENTER THEN "other" ELSE key)

KeyRelease(key) ==
    /\ ~thrown
    /\ PainterStep(on_key(Cur, key, GLFW_RELEASE), "other")

MousePress(pos) ==
    /\ ~thrown
    /\ PainterStep(on_mouse_button(Cur, GLFW_MOUSE_BUTTON_LEFT, GLFW_PRESS, pos[1], pos[2]),
                   "press")

\* every (button, action) other than (left, press)
MouseOther(button, action, pos) ==
    /\ ~thrown
    /\ <<button, action>> # <<GLFW_MOUSE_BUTTON_LEFT, GLFW_PRESS>>
    /\ PainterStep(on_mouse_button(Cur, button, action, pos[1], pos[2]), "button")

MouseMove(pos) ==
    /\ ~thrown
    /\ PainterStep(on_mouse_move(Cur, pos[1], pos[2]), "other")

Next ==
    \/ \E key \in Keys : KeyPress(key)
    \/ \E key \in Keys : KeyRelease(key)
    \/ \E pos \in CursorSet : MousePress(pos)
    \/ \E button \in Buttons, action \in KeyActions :
           MouseOther(button, action, <<400, 400>>)
    \/ \E pos \in CursorSet : MouseMove(pos)

Spec == Init /\ [][Next]_vars

SpecAged == InitAged /\ [][Next]_vars

(***************************************************************************)
(* Canvas clients: entities constructed and destroyed directly, as         *)
(* main.cpp's Computer does, and the registry's own operations             *)
(***************************************************************************)
ClientAdd ==
    /\ ~thrown
    /\ canvas_alive
    /\ LET entity == NewAddress(Cur)
           S == draw(Cur, [kind |-> "Entity"])
       IN  /\ WithinBounds(S)
           /\ Becomes(S)
           /\ add_order' = Append(add_order, entity)
           /\ UNCHANGED <<overridden, absent_delete>>
    /\ frame' = None
    /\ UNCHANGED <<painter_obs, draft_obs, probe, teardown_vars>>

ClientDestroy(entity) ==
    /\ ~thrown
    /\ canvas_alive
    /\ entity \in entities
    /\ Becomes(destroy(Cur, entity))
    /\ add_order' = Without(add_order, entity)
    /\ overridden' = overridden \ {entity}
    /\ frame' = None
    /\ UNCHANGED <<absent_delete, painter_obs, draft_obs, probe, teardown_vars>>

ClientDeleteAbsent(entity) ==
    /\ ~thrown
    /\ canvas_alive
    /\ entity \notin entities
    /\ absent_delete = None
    /\ Becomes(delete_entity(Cur, entity))
    /\ absent_delete' = Some([entities |-> entities,
                              entity_attributes |-> entity_attributes,
                              priority_counter |-> priority_counter])
    /\ frame' = None
    /\ UNCHANGED <<add_order, overridden, painter_obs, draft_obs, probe, teardown_vars>>

ClientSetPriority(entity, priority) ==
    /\ ~thrown
    /\ canvas_alive
    /\ entity \in entities
    /\ Becomes(set_entity_priority(Cur, entity, priority))
    /\ overridden' = overridden \cup {entity}
    /\ frame' = None
    /\ UNCHANGED <<add_order, absent_delete, painter_obs, draft_obs, probe, teardown_vars>>

NextCanvas ==
    \/ ClientAdd
    \/ \E entity \in entities : ClientDestroy(entity)
    \/ \E entity \in 1..(MaxAdds + 1) : ClientDeleteAbsent(entity)
    \/ \E entity \in entities, priority \in ClientPriorities :
           ClientSetPriority(entity, priority)

SpecCanvas == Init /\ [][NextCanvas]_vars

(***************************************************************************)
(* Canvas::spin: one pass of the render loop between client operations     *)
(***************************************************************************)
\* Variant: the comparator orders by descending priority.
spin_compare_greater(S, a, b) == S.entity_attributes[a] > S.entity_attributes[b]

\* entity_attributes[a] in the sort lambda: std::map::operator[] inserts a
\* value-initialized EntityAttribute when the key has no record
attribute_subscript(S, a) ==
    IF a \in DOMAIN S.entity_attributes THEN S
    ELSE [S EXCEPT !.entity_attributes = Put(@, a, 0)]

\* the lambda handed to std::sort
spin_compare(S, a, b) == S.entity_attributes[a] < S.entity_attributes[b]

RECURSIVE Rearrangements(_)
Rearrangements(set) ==
    IF set = {} THEN { <<>> }
    ELSE UNION { { <<x>> \o p : p \in Rearrangements(set \ {x}) } : x \in set }

\* what std::sort may leave in sorted_entities: a rearrangement of the copy
\* of `entities` in which no element compares less than an earlier one
sorted_entities(S) ==
    { p \in Rearrangements(S.entities) :
        \A i, j \in 1..Len(p) : i < j => ~spin_compare(S, p[j], p[i]) }

\* one iteration of the while loop: every element of sorted_entities is drawn
SpinFrame ==
    /\ ~thrown /\ canvas_alive
    /\ \E order \in sorted_entities(Cur) : frame' = Some(order)
    /\ UNCHANGED <<add_order, overridden, absent_delete>>
    /\ UNCHANGED <<canvas_vars, painter_vars, draft_vars, teardown_vars,
                   painter_obs, draft_obs, probe>>

NextRender ==
    \/ NextCanvas
    \/ SpinFrame

SpecRender == Init /\ [][NextRender]_vars

(***************************************************************************)
(* Canvas teardown: the Canvas is destructed while entity objects are      *)
(* still alive; these are then destructed or used by their owners          *)
(***************************************************************************)
\* Variant: the loop that sets container to nullptr is missing.
nulled_by_destructor_none(registered) == {}

\* ~Canvas: the entities whose container the loop over `entities` sets to nullptr
nulled_by_destructor(registered) == registered

\* the entity objects that exist (registered or not)
Objects == DOMAIN config

CanvasDestruct ==
    /\ ~thrown /\ fault = "" /\ canvas_alive
    /\ canvas_alive' = FALSE
    /\ detached' = nulled_by_destructor(entities)
    /\ UNCHANGED <<fault, canvas_vars, painter_vars, draft_vars, obs_vars>>

\* Entity::~Entity once the Canvas is gone: delete_entity only if container is set
EntityDestructAfter(entity) ==
    /\ ~thrown /\ fault = "" /\ ~canvas_alive
    /\ entity \in Objects
    /\ IF entity \in detached
       THEN /\ Becomes([Cur EXCEPT !.config = Drop(@, entity)])
            /\ detached' = detached \ {entity}
            /\ UNCHANGED fault
       ELSE /\ fault' = "use-after-free"
            /\ UNCHANGED <<detached, canvas_vars, painter_vars, draft_vars>>
    /\ UNCHANGED <<canvas_alive, obs_vars>>

\* Entity::attribute / Entity::set_priority once the Canvas is gone:
\* this->container is dereferenced without a test
EntityUseAfter(entity) ==
    /\ ~thrown /\ fault = "" /\ ~canvas_alive
    /\ entity \in Objects
    /\ IF entity \in detached
       THEN fault' \in {"null-deref:crash", "null-deref:garbage"}
       ELSE fault' = "use-after-free"
    /\ UNCHANGED <<canvas_alive, detached, canvas_vars, painter_vars, draft_vars, obs_vars>>

NextTeardown ==
    \/ NextCanvas
    \/ CanvasDestruct
    \/ \E entity \in Objects : EntityDestructAfter(entity)
    \/ \E entity \in Objects : EntityUseAfter(entity)

SpecTeardown == Init /\ [][NextTeardown]_vars

(***************************************************************************)
(* Draft events: one handler call of the active Draft each                 *)
(***************************************************************************)
DraftOwned(S) ==
    Range(S.segments_)
        \cup ({S.preview_line_, S.preview_rectangle_, S.preview_segment_,
               S.preview_circle_} \ {NoEntity})

Others(S) ==
    { <<e, S.entity_attributes[e], S.config[e]>> : e \in S.entities \ DraftOwned(S) }

DraftIdle(S) ==
    /\ S.first_point_ = None /\ S.first_corner_ = None /\ S.center_ = None
    /\ S.points_ = <<>> /\ DraftOwned(S) = {}

DraftStep(S, event) ==
    /\ WithinBounds(S)
    /\ S.priority_counter <= kCanvasPriorityStep * MaxDraftAdds
    /\ Becomes(S)
    /\ last_commits' = Len(S.commits) - Len(commits)
    /\ d_event' = event
    /\ d_others' = Others(Cur)
    /\ d_recorded' = points_
    /\ UNCHANGED <<canvas_obs, painter_obs, probe, teardown_vars>>

DraftMousePress(world) ==
    /\ ~thrown
    /\ LET S == Draft_on_mouse_button(Cur, GLFW_MOUSE_BUTTON_LEFT, GLFW_PRESS, world)
       IN  /\ DraftStep(S, "press")
           /\ d_presses' = Append(IF d_done THEN <<>> ELSE d_presses, world)
           /\ d_done' = (Len(S.commits) > Len(commits) \/ DraftIdle(S))

DraftMouseOther(button, action, world) ==
    /\ ~thrown
    /\ <<button, action>> # <<GLFW_MOUSE_BUTTON_LEFT, GLFW_PRESS>>
    /\ DraftStep(Draft_on_mouse_button(Cur, button, action, world), "button")
    /\ d_presses' = IF d_done THEN <<>> ELSE d_presses
    /\ UNCHANGED d_done

DraftMouseMove(world) ==
    /\ ~thrown
    /\ DraftStep(Draft_on_mouse_move(Cur, world), "other")
    /\ d_presses' = IF d_done THEN <<>> ELSE d_presses
    /\ UNCHANGED d_done

DraftKeyPress(key) ==
    /\ ~thrown
    /\ DraftStep(Draft_on_key(Cur, key, GLFW_PRESS),
                 IF key \in {GLFW_KEY_ESCAPE, GLFW_KEY_ENTER} THEN key ELSE "other")
    /\ d_done' = (d_done \/ DraftIdle(Draft_on_key(Cur, key, GLFW_PRESS)))
    /\ d_presses' = IF d_done THEN <<>> ELSE d_presses

DraftKeyRelease(key) ==
    /\ ~thrown
    /\ DraftStep(Draft_on_key(Cur, key, GLFW_RELEASE), "other")
    /\ d_presses' = IF d_done THEN <<>> ELSE d_presses
    /\ UNCHANGED d_done

\* reset(), called by the owner of the Draft
DraftReset ==
    /\ ~thrown
    /\ DraftStep(Draft_reset(Cur), "reset")
    /\ d_done' = TRUE
    /\ d_presses' = IF d_done THEN <<>> ELSE d_presses

NextDraft ==
    \/ \E world \in DraftPoints : DraftMousePress(world)
    \/ \E button \in Buttons, action \in KeyActions :
           DraftMouseOther(button, action, <<0, 0>>)
    \/ \E world \in DraftPoints : DraftMouseMove(world)
    \/ \E key \in DraftKeys : DraftKeyPress(key)
    \/ \E key \in DraftKeys : DraftKeyRelease(key)
    \/ DraftReset

SpecDraft == InitDrafting /\ [][NextDraft]_vars

(***************************************************************************)
(* The Canvas with either input handler attached: the Painter, or one of   *)
(* the Drafts                                                              *)
(***************************************************************************)
InitInput ==
    /\ InitCanvas /\ InitPainter /\ InitDraft /\ InitObs
    /\ probe = None
    /\ draft_kind \in DraftKinds \cup {"None"}

NextInput ==
    \/ draft_kind = "None" /\ Next
    \/ draft_kind # "None" /\ NextDraft

SpecInput == InitInput /\ [][NextInput]_vars

(***************************************************************************)
(* Style cursors: the four cycle actions of the menus, run any number of   *)
(* times on a Painter without history                                      *)
(***************************************************************************)
StyleActions == <<"cycle_stroke_color", "cycle_stroke_width",
                  "cycle_fill_color+rebuild", "cycle_corner_radius+rebuild">>

CycleStyle(action) ==
    /\ ~thrown
    /\ Becomes(invoke(Cur, action))
    /\ p_event' = action
    /\ UNCHANGED <<trail, pre_commit, committed_entity, canvas_obs, draft_obs, probe, teardown_vars>>

NextStyle == \E i \in 1..Len(StyleActions) : CycleStyle(StyleActions[i])

SpecStyle == Init /\ [][NextStyle]_vars

(***************************************************************************)
(* MenuItem and MenuState on their own: a MenuState of up to MaxItems      *)
(* items with any of a few boxes and anchors, and a point;                 *)
(* layout() and contains() are applied to it                               *)
(***************************************************************************)
MaxItems == 3

BoxSet == { [top_left |-> <<0, 0>>, bottom_right |-> <<0, 0>>],
            [top_left |-> <<-20, 10>>, bottom_right |-> <<20, 2>>],
            [top_left |-> <<20, 2>>, bottom_right |-> <<-20, 10>>] }
AnchorSet == { <<0, 0>>, <<0, 6>>, <<-10, 8>> }
PointSet == { -21, -20, 0, 20, 21 } \X { 1, 2, 5, 10, 11, 15 }

InitMenu ==
    /\ InitCanvas /\ InitPainter /\ InitDraft /\ InitObs
    /\ draft_kind = "None"
    /\ \E n \in 0..MaxItems, box \in BoxSet, anchor \in AnchorSet, point \in PointSet :
          probe = Some([menu |-> [InitMenuState EXCEPT
                                     !.anchor = anchor,
                                     !.items = [i \in 1..n |->
                                                  [MenuItem(<<"item", i>>, "") EXCEPT
                                                      !.top_left = box.top_left,
                                                      !.bottom_right = box.bottom_right]]],
                        point |-> point,
                        laid_out |-> FALSE,
                        asked |-> 0,
                        hit |-> FALSE])

\* menu_state.layout()
MenuLayout ==
    /\ ~probe[1].laid_out
    /\ probe' = Some([probe[1] EXCEPT !.menu = layout(@), !.laid_out = TRUE,
                                      !.asked = 0, !.hit = FALSE])
    /\ UNCHANGED <<canvas_vars, painter_vars, draft_vars, teardown_vars,
                   canvas_obs, painter_obs, draft_obs>>

\* item.contains(point) for one item of the menu
MenuContains(i) ==
    /\ i \in 1..Len(probe[1].menu.items)
    /\ probe' = Some([probe[1] EXCEPT !.asked = i,
                                      !.hit = contains(probe[1].menu.items[i], probe[1].point)])
    /\ UNCHANGED <<canvas_vars, painter_vars, draft_vars, teardown_vars,
                   canvas_obs, painter_obs, draft_obs>>

NextMenu ==
    \/ MenuLayout
    \/ \E i \in 1..MaxItems : MenuContains(i)

SpecMenu == InitMenu /\ [][NextMenu]_vars

(***************************************************************************)
(* Properties                                                              *)
(***************************************************************************)
WorkingEntities ==
    Range(segments) \cup ({preview_segment, preview_rectangle} \ {NoEntity})

\* C1: in every reachable Painter state the priorities recorded in
\* drawn_entities are strictly increasing with the index.
C1_HistoryPrioritiesIncreasing ==
    \A i, j \in 1..Len(drawn_entities) :
        i < j => drawn_entities[i].priority < drawn_entities[j].priority

C1_TwoCommitted == Len(drawn_entities) >= 2

\* C2: every live working entity (segment, preview) has a priority strictly
\* greater than the priority of every committed history entry, so it is
\* rendered after all of them.
C2_WorkingAboveCommitted ==
    \A e \in WorkingEntities : \A i \in 1..Len(drawn_entities) :
        drawn_entities[i].priority < entity_attributes[e]

\* C3: the menu overlay entity has a priority strictly greater than that of
\* every other entity the Painter has registered.
C3_MenuOnTop ==
    menu_layer # NoEntity =>
        \A e \in entities \ {menu_layer} :
            entity_attributes[e] < entity_attributes[menu_layer]

\* C4: a commit directly followed by a press of the undo key leaves
\* drawn_entities as it was before the commit (same entries: entities and
\* priorities), and the committed entity is no longer registered.
C4_UndoInvertsCommit ==
    trail = "commit-undo" =>
        /\ drawn_entities = pre_commit
        /\ committed_entity \notin entities

C4_UndoneOverHistory == trail = "commit-undo" /\ pre_commit # <<>>

\* C5: for Canvas clients that add entities and remove current members, the
\* live set is the entities added and not yet removed, and of two live
\* entities whose priority was not overridden the one added later has the
\* strictly greater priority.
C5_RegistryFollowsAdds ==
    /\ entities = Range(add_order)
    /\ \A i, j \in 1..Len(add_order) :
           (i < j /\ add_order[i] \notin overridden /\ add_order[j] \notin overridden)
               => entity_attributes[add_order[i]] < entity_attributes[add_order[j]]

C5_AddsAndRemoves ==
    /\ Len(add_order) >= 3
    /\ priority_counter > kCanvasPriorityStep * Len(add_order)
    /\ overridden # {}
    /\ Cardinality(entities \ overridden) >= 2

\* C6: delete_entity called with an entity that is not in the live set
\* reports an error and leaves the live set, the priority records and the
\* priority counter unchanged.
C6_DeleteAbsentFails ==
    absent_delete # None =>
        /\ thrown
        /\ entities = absent_delete[1].entities
        /\ entity_attributes = absent_delete[1].entity_attributes
        /\ priority_counter = absent_delete[1].priority_counter

C6_AbsentDeleted == absent_delete # None /\ entities # {}

\* C7: PolygonDraft, n primary presses p1..pn followed by a press of Enter:
\* for n >= 3 exactly one Commit, a polygon with the points p1..pn in press
\* order; for n < 3 no Commit; either way the draft is left without points,
\* segment entities and preview entity.
C7_PolygonFinish ==
    (draft_kind = "Polygon" /\ d_event = GLFW_KEY_ENTER) =>
        /\ IF Len(d_presses) >= 3
           THEN /\ last_commits = 1
                /\ Last(commits).entity \in entities
                /\ Last(commits).shape_type = "Polygon"
                /\ config[Last(commits).entity].kind = "Polygon"
                /\ config[Last(commits).entity].points = d_presses
           ELSE last_commits = 0
        /\ points_ = <<>> /\ segments_ = <<>> /\ preview_segment_ = NoEntity
        /\ entities = {commits[i].entity : i \in 1..Len(commits)}

C7_PolygonCommitted ==
    draft_kind = "Polygon" /\ d_event = GLFW_KEY_ENTER /\ Len(d_presses) >= 3

\* C8 as stated: for every Draft kind a press of Escape discards the recorded
\* points, removes the draft's preview and segment entities, produces no
\* Commit and leaves every other registered entity unchanged.
C8_EscapeDiscards ==
    d_event = GLFW_KEY_ESCAPE =>
        /\ last_commits = 0
        /\ DraftIdle(Cur)
        /\ Others(Cur) = d_others

\* C8 amended: a press of Escape leaves the draft without points and without
\* registered preview or segment entities, and leaves every other registered
\* entity unchanged; it produces no Commit, except that with >= 3 recorded
\* points in a PolygonDraft and with >= 2 in a PolylineDraft it acts as the
\* finish key and produces exactly one Commit of the recorded points.
EscapeFinishes ==
    \/ draft_kind = "Polygon" /\ Len(d_recorded) >= 3
    \/ draft_kind = "Polyline" /\ Len(d_recorded) >= 2

C8_EscapeDiscardsOrFinishes ==
    d_event = GLFW_KEY_ESCAPE =>
        /\ DraftIdle(Cur)
        /\ IF EscapeFinishes
           THEN /\ last_commits = 1
                /\ Last(commits).entity \in entities
                /\ Last(commits).shape_type = draft_kind
                /\ config[Last(commits).entity].points = d_recorded
                /\ {o \in Others(Cur) : o[1] # Last(commits).entity} = d_others
           ELSE /\ last_commits = 0
                /\ Others(Cur) = d_others

C8_EscapedMidDraw ==
    /\ d_event = GLFW_KEY_ESCAPE
    /\ d_presses # <<>> /\ ~EscapeFinishes
    /\ d_others # {}

\* C9: PolylineDraft, a press of Enter: with >= 2 recorded points exactly one
\* Commit of an open polyline with those points; with fewer, no Commit; either
\* way the draft is left without points, segment entities and preview entity.
C9_PolylineFinish ==
    (draft_kind = "Polyline" /\ d_event = GLFW_KEY_ENTER) =>
        /\ IF Len(d_recorded) >= 2
           THEN /\ last_commits = 1
                /\ Last(commits).shape_type = "Polyline"
                /\ config[Last(commits).entity].points = d_recorded
           ELSE last_commits = 0
        /\ points_ = <<>> /\ segments_ = <<>> /\ preview_segment_ = NoEntity

\* C10: RectangleDraft, primary presses at a then b: the second press produces
\* exactly one Commit, a rectangle whose center is the midpoint of a and b,
\* whose width is |a.x - b.x| and whose height is |a.y - b.y|.
Max(x, y) == IF x >= y THEN x ELSE y
Min(x, y) == IF x <= y THEN x ELSE y

C10_RectangleCommit ==
    (draft_kind = "Rectangle" /\ d_event = "press" /\ Len(d_presses) = 2) =>
        /\ last_commits = 1
        /\ Last(commits).entity \in entities
        /\ Last(commits).shape_type = "Rectangle"
        /\ LET a == d_presses[1]
               b == d_presses[2]
               rect == config[Last(commits).entity]
           IN  /\ rect.kind = "Rectangle"
               /\ 2 * rect.center[1] = a[1] + b[1]
               /\ 2 * rect.center[2] = a[2] + b[2]
               /\ rect.width = Max(a[1], b[1]) - Min(a[1], b[1])
               /\ rect.height = Max(a[2], b[2]) - Min(a[2], b[2])

\* (-1,-1) then (1,1): center (0,0), width 2, height 2
C10_RectangleExample ==
    /\ draft_kind = "Rectangle" /\ d_event = "press"
    /\ d_presses = << <<-10, -10>>, <<10, 10>> >>
    /\ last_commits = 1
    /\ config[Last(commits).entity].center = <<0, 0>>
    /\ config[Last(commits).entity].width = 20
    /\ config[Last(commits).entity].height = 20

\* C11: CircleDraft, primary presses at c then p: if p = c the second press
\* produces no Commit, clears the center and leaves no preview circle
\* registered; otherwise it produces exactly one Commit, a circle with center c
\* and radius the distance from c to p (to the fixed-point grid).
C11_CircleSecondPress ==
    (draft_kind = "Circle" /\ d_event = "press" /\ Len(d_presses) = 2) =>
        LET c == d_presses[1]
            p == d_presses[2]
            dd == (c[1] - p[1]) * (c[1] - p[1]) + (c[2] - p[2]) * (c[2] - p[2])
        IN  /\ center_ = None
            /\ preview_circle_ = NoEntity
            /\ entities = {commits[i].entity : i \in 1..Len(commits)}
            /\ IF p = c
               THEN last_commits = 0
               ELSE /\ last_commits = 1
                    /\ Last(commits).entity \in entities
                    /\ Last(commits).shape_type = "Circle"
                    /\ LET circle == config[Last(commits).entity]
                       IN  /\ circle.kind = "Circle"
                           /\ circle.center = c
                           /\ circle.radius * circle.radius <= dd
                           /\ dd < (circle.radius + 1) * (circle.radius + 1)

\* a press on the center itself, after a preview circle had been registered
C11_CircleZeroDistance ==
    /\ draft_kind = "Circle" /\ d_event = "press"
    /\ Len(d_presses) = 2 /\ d_presses[1] = d_presses[2]
    /\ last_commits = 0 /\ commits = <<>>
    /\ priority_counter > 0

\* C12: LineDraft: the first primary press of a gesture records the start
\* anchor and produces no Commit; the second produces exactly one Commit, the
\* line from the first press point to the second, and leaves the draft idle
\* (no anchor, no preview entity), so that the next press starts a new line.
C12_LinePressPairs ==
    (draft_kind = "Line" /\ d_event = "press") =>
        /\ Len(d_presses) \in {1, 2}
        /\ Len(d_presses) = 1 =>
               /\ last_commits = 0
               /\ first_point_ = Some(d_presses[1])
        /\ Len(d_presses) = 2 =>
               /\ last_commits = 1
               /\ Last(commits).entity \in entities
               /\ Last(commits).shape_type = "Line"
               /\ config[Last(commits).entity].kind = "Line"
               /\ config[Last(commits).entity].start = d_presses[1]
               /\ config[Last(commits).entity].end = d_presses[2]
               /\ first_point_ = None
               /\ preview_line_ = NoEntity
               /\ entities = {commits[i].entity : i \in 1..Len(commits)}

\* the second pair of presses has committed a second line
C12_SecondLine ==
    /\ draft_kind = "Line" /\ d_event = "press"
    /\ Len(d_presses) = 2 /\ last_commits = 1 /\ Len(commits) = 2
    /\ config[commits[1].entity].kind = "Line"
    /\ config[commits[2].entity].start = d_presses[1]

\* C13: an on_mouse_button event whose (button, action) is not (left, press)
\* changes nothing: the Draft's (or Painter's) state, the registry, the
\* history and the commits handed out are all as before.
C13_OtherButtonsIgnored ==
    [][(d_event' = "button" \/ p_event' = "button")
          => UNCHANGED <<canvas_vars, painter_vars, draft_vars>>]_vars

\* such an event was handled by a PolygonDraft holding points and segments
C13_IgnoredMidDraw ==
    /\ d_event = "button"
    /\ draft_kind = "Polygon" /\ Len(points_) >= 2 /\ segments_ # <<>>

\* C14: a primary press while the menu is visible.  On an item: that item's
\* action has run exactly once (its cursor field has advanced by one step, the
\* other cursor fields are as before), the menu is still visible with the same
\* kind, and its items are the ones built for that kind from the new cursor
\* state, laid out.  On no item: no cursor field and no history entry changes,
\* and the menu is closed (not visible, no items, kind None).
StyleCursor ==
    [shape |-> active_shape, color |-> stroke_color_index, width |-> stroke_width_index,
     fill |-> fill_color_index, radius |-> corner_radius_index]

\* the cursor after one invocation of the action behind a menu label
Advanced(cursor, label) ==
    CASE label = "Shape" ->
             [cursor EXCEPT !.shape = IF @ = "Polygon" THEN "Rectangle" ELSE "Polygon"]
      [] label = "Stroke color" ->
             [cursor EXCEPT !.color = (@ + 1) % Len(stroke_palette)]
      [] label = "Stroke width" ->
             [cursor EXCEPT !.width = (@ + 1) % Len(stroke_width_options)]
      [] label = "Fill" ->
             [cursor EXCEPT !.fill = (@ + 1) % Len(fill_palette)]
      [] label = "Corner radius" ->
             [cursor EXCEPT !.radius = (@ + 1) % Len(radius_options)]

C14_MenuPress ==
    [][(p_event' = "press" /\ menu_state.visible) =>
          LET world == last_cursor_world'
              hits == {i \in 1..Len(menu_state.items) : contains(menu_state.items[i], world)}
          IN  IF hits # {}
              THEN /\ \E i \in hits :
                         StyleCursor' = Advanced(StyleCursor, menu_state.items[i].label[1])
                   /\ menu_state'.visible
                   /\ menu_state'.kind = menu_state.kind
                   /\ menu_state'.items =
                          layout([menu_state' EXCEPT !.items =
                                     IF menu_state.kind = "Main"
                                     THEN build_main_menu_items(Cur')
                                     ELSE build_shape_menu_items(Cur')]).items
                   /\ Len(drawn_entities') = Len(drawn_entities)
              ELSE /\ StyleCursor' = StyleCursor
                   /\ drawn_entities' = drawn_entities
                   /\ ~menu_state'.visible
                   /\ menu_state'.items = <<>>
                   /\ menu_state'.kind = "None"]_vars

\* a press on "Stroke width" in the main menu: the menu shows the new width
C14_WidthCycled ==
    /\ p_event = "press" /\ menu_state.visible /\ menu_state.kind = "Main"
    /\ stroke_width_index = 2
    /\ menu_state.items[3].label = <<"Stroke width", stroke_width_options[3]>>
    /\ menu_state.items[3].top_left[2] < menu_state.items[2].bottom_right[2]

\* C15: no event handled while the menu is visible changes the in-progress
\* shape: the Painter state, the recorded points and corners, and the segment
\* and preview entities are as before.
InProgress ==
    <<state, polygon_points, rect_first_corner, rect_second_corner,
      segments, preview_segment, preview_rectangle>>

C15_MenuShieldsDrawing ==
    [][menu_state.visible =>
          /\ UNCHANGED InProgress
          /\ \A e \in WorkingEntities :
                 /\ e \in entities'
                 /\ config'[e] = config[e]
                 /\ entity_attributes'[e] = entity_attributes[e]]_vars

\* an event was handled while the shape menu of a committed shape was up
C15_EventUnderMenu ==
    /\ p_event \in {"other", "press"} /\ menu_state.visible
    /\ menu_state.kind = "ShapeSpecific" /\ drawn_entities # <<>>
    /\ last_cursor_world # <<0, 0>>

\* C16 as stated: a press of Backspace while a shape is in progress or while
\* the menu is visible leaves drawn_entities unchanged.
C16_UndoOnlyWhenIdle ==
    [][(p_event' = "BACKSPACE" /\ (state # "Idle" \/ menu_state.visible))
          => drawn_entities' = drawn_entities]_vars

\* C16 amended: a press of Backspace pops the last history entry whenever the
\* history is not empty, whatever the Painter state and the menu's visibility:
\* the entry's entity leaves the registry, the menu is closed and the shape in
\* progress is untouched.  With an empty history it changes nothing.
C16_UndoAlwaysPops ==
    [][p_event' = "BACKSPACE" =>
          IF drawn_entities = <<>>
          THEN UNCHANGED <<canvas_vars, painter_vars>>
          ELSE /\ drawn_entities' = Front(drawn_entities)
               /\ Last(drawn_entities).entity \notin entities'
               /\ entities' = entities \ {Last(drawn_entities).entity}
               /\ ~menu_state'.visible
               /\ UNCHANGED InProgress]_vars

\* Backspace right after a commit, which leaves the shape menu up: popped
C16_UndoneUnderMenu ==
    /\ p_event = "BACKSPACE" /\ trail = "commit-undo"
    /\ Len(drawn_entities) = Len(pre_commit)
    /\ ~menu_state.visible

\* C17: a press of Space opens the main menu when the Painter is Idle (the
\* menu becomes visible with kind Main); pressed while a shape is in progress
\* it changes nothing: the menu stays hidden, and the points, corners, segment
\* and preview entities and the history are as before.
C17_SpaceOnlyFromIdle ==
    [][p_event' = "SPACE" =>
          IF state = "Idle"
          THEN /\ menu_state'.visible /\ menu_state'.kind = "Main"
               /\ UNCHANGED <<InProgress, drawn_entities>>
          ELSE /\ ~menu_state'.visible
               /\ UNCHANGED <<canvas_vars, painter_vars>>]_vars

\* Space was pressed with polygon points recorded and segments registered
C17_SpaceMidDraw ==
    /\ p_event = "SPACE" /\ state = "DrawPolygon"
    /\ Len(polygon_points) >= 2 /\ segments # <<>>
    /\ ~menu_state.visible

\* C18: a press of the finalize key (Escape, menu hidden) with a polygon of
\* >= 3 points or a rectangle of two corners in progress appends exactly one
\* HistoryEntry: a new registered entity at priority next_priority, which then
\* advances by kCommittedPriorityStep; the menu is then visible with kind
\* ShapeSpecific, offering "Fill", and "Corner radius" exactly when the
\* committed shape is a rectangle.
Finalizable ==
    /\ ~menu_state.visible
    /\ \/ state = "DrawPolygon" /\ Len(polygon_points) >= 3
       \/ state = "DrawRectangle" /\ rect_first_corner # None /\ rect_second_corner # None

C18_FinalizeCommits ==
    [][(p_event' = "ESCAPE" /\ Finalizable) =>
          LET entry == Last(drawn_entities')
              offered == [i \in 1..Len(menu_state'.items) |-> menu_state'.items[i].label[1]]
          IN  /\ drawn_entities' # <<>>
              /\ Front(drawn_entities') = drawn_entities
              /\ entry.priority = next_priority
              /\ next_priority' = next_priority + kCommittedPriorityStep
              /\ entry.entity \in entities' \ entities
              /\ entity_attributes'[entry.entity] = entry.priority
              /\ config'[entry.entity].kind =
                     (IF state = "DrawPolygon" THEN "Polygon" ELSE "Rectangle")
              /\ menu_state'.visible
              /\ menu_state'.kind = "ShapeSpecific"
              /\ offered = IF state = "DrawRectangle"
                           THEN <<"Fill", "Corner radius">> ELSE <<"Fill">>
              /\ state' = "Idle"]_vars

\* a rectangle has just been committed on top of an earlier shape
C18_RectangleCommitted ==
    /\ p_event = "ESCAPE" /\ trail = "commit" /\ pre_commit # <<>>
    /\ config[Last(drawn_entities).entity].kind = "Rectangle"
    /\ menu_state.visible /\ Len(menu_state.items) = 2

\* C19: a press of the finalize key (Escape, menu hidden) with a polygon of
\* fewer than 3 points or a rectangle lacking a corner in progress leaves
\* drawn_entities and next_priority unchanged, opens no menu, and returns
\* the Painter to Idle with every segment and preview entity removed from
\* the registry; push_committed_entity given an empty entity changes nothing.
Insufficient ==
    /\ ~menu_state.visible
    /\ \/ state = "DrawPolygon" /\ Len(polygon_points) < 3
       \/ state = "DrawRectangle" /\ (rect_first_corner = None \/ rect_second_corner = None)

C19_InsufficientCommit ==
    [][/\ push_committed_entity(Cur, NoEntity) = Cur
       /\ (p_event' = "ESCAPE" /\ Insufficient) =>
             /\ UNCHANGED <<drawn_entities, next_priority>>
             /\ ~menu_state'.visible
             /\ state' = "Idle"
             /\ segments' = <<>>
             /\ preview_segment' = NoEntity
             /\ preview_rectangle' = NoEntity
             /\ polygon_points' = <<>>
             /\ rect_first_corner' = None /\ rect_second_corner' = None
             /\ WorkingEntities \cap entities' = {}
             /\ entities' = entities \ WorkingEntities]_vars

\* a polygon with a registered segment was given up by Escape before any
\* shape was committed
C19_ShortPolygonDropped ==
    /\ p_event = "ESCAPE" /\ trail = ""
    /\ state = "Idle" /\ ~menu_state.visible
    /\ drawn_entities = <<>> /\ next_priority = kInitialNextPriority
    /\ working_priority_counter >= 1
    /\ WorkingEntities = {}

\* C20: whenever the history is non-empty, a step that cycles the stroke
\* color or the stroke width rebuilds the most recent history entry in place:
\* its entity is replaced by a new registered entity with the same geometry
\* and the new style, at the entry's unchanged priority, and the history
\* length is unchanged.
StrokeCycled ==
    \/ stroke_color_index' # stroke_color_index
    \/ stroke_width_index' # stroke_width_index

C20_StrokeCycleRebuildsTop ==
    [][(drawn_entities # <<>> /\ StrokeCycled) =>
          LET old == Last(drawn_entities)
              new == Last(drawn_entities')
          IN  /\ Len(drawn_entities') = Len(drawn_entities)
              /\ Front(drawn_entities') = Front(drawn_entities)
              /\ new.priority = old.priority
              /\ new.entity # old.entity
              /\ old.entity \notin entities'
              /\ new.entity \in entities'
              /\ entity_attributes'[new.entity] = old.priority
              /\ config'[new.entity] =
                     [config[old.entity] EXCEPT
                         !.color = current_stroke_color(Cur'),
                         !.stroke = current_stroke_width(Cur')]]_vars

\* C21: whenever the history is non-empty, a step that cycles the active
\* shape kind rebuilds the most recent history entry in place: its entity is
\* replaced by a new registered entity with the stored geometry and the
\* current style, at the entry's unchanged priority.
C21_ShapeCycleRebuildsTop ==
    [][(drawn_entities # <<>> /\ active_shape' # active_shape) =>
          LET old == Last(drawn_entities)
              new == Last(drawn_entities')
          IN  /\ Len(drawn_entities') = Len(drawn_entities)
              /\ new.priority = old.priority
              /\ new.entity # old.entity
              /\ new.entity \in entities'
              /\ entity_attributes'[new.entity] = old.priority
              /\ config'[new.entity] =
                     [config[old.entity] EXCEPT
                         !.color = current_stroke_color(Cur'),
                         !.fill_color = current_fill_color(Cur'),
                         !.stroke = current_stroke_width(Cur')]]_vars

\* C22: after any sequence of cycle operations each style-cursor index
\* (stroke color, stroke width, fill color, corner radius) is within its
\* option list; one cycle advances exactly its own index by one modulo the
\* list length, and as many cycles as the list has options bring the index
\* back to where it started.
StyleIndices(S) ==
    << S.stroke_color_index, S.stroke_width_index,
       S.fill_color_index, S.corner_radius_index >>

StyleLengths ==
    << Len(stroke_palette), Len(stroke_width_options),
       Len(fill_palette), Len(radius_options) >>

RECURSIVE CycleTimes(_, _, _)
CycleTimes(S, action, n) ==
    IF n = 0 THEN S ELSE CycleTimes(invoke(S, action), action, n - 1)

C22_StyleCursorsCycle ==
    /\ \A k \in 1..4 : StyleIndices(Cur)[k] \in 0..(StyleLengths[k] - 1)
    /\ \A k \in 1..4 :
          /\ StyleIndices(invoke(Cur, StyleActions[k])) =
                 [StyleIndices(Cur) EXCEPT ![k] = (@ + 1) % StyleLengths[k]]
          /\ StyleIndices(CycleTimes(Cur, StyleActions[k], StyleLengths[k])) =
                 StyleIndices(Cur)

\* the fill cursor has just wrapped from the last option back to the first,
\* with the other three cursors away from their initial values
C22_FillWrapped ==
    /\ p_event = "cycle_fill_color+rebuild" /\ fill_color_index = 0
    /\ stroke_color_index = Len(stroke_palette) - 1
    /\ stroke_width_index = 0
    /\ corner_radius_index = Len(radius_options) - 1

\* C23: a press of the undo key (Backspace) while the history is empty
\* changes nothing: drawn_entities, the registry, the menu state, the
\* committed-geometry snapshot and the shape in progress are as before, and
\* no error is raised.
C23_UndoOnEmptyHistory ==
    [][(p_event' = "BACKSPACE" /\ drawn_entities = <<>>) =>
          /\ drawn_entities' = <<>>
          /\ UNCHANGED <<entities, entity_attributes, config>>
          /\ UNCHANGED menu_state
          /\ UNCHANGED <<committed_polygon, committed_rectangle, last_committed_shape>>
          /\ UNCHANGED InProgress
          /\ UNCHANGED <<next_priority, active_shape>>
          /\ ~thrown']_vars

\* Backspace was pressed with an empty history while the menu was open
C23_UndoneNothingUnderMenu ==
    /\ p_event = "BACKSPACE" /\ drawn_entities = <<>>
    /\ menu_state.visible /\ menu_layer \in entities

\* C24: a press of the undo key (Backspace) on a non-empty history removes
\* exactly one entity from the registry, the entity of the last history
\* entry; every other registered entity (earlier history entries, segment
\* and preview entities in progress, the menu overlay) stays registered with
\* its priority unchanged.
C24_UndoRemovesOnlyLast ==
    [][(p_event' = "BACKSPACE" /\ drawn_entities # <<>>) =>
          LET popped == Last(drawn_entities).entity
          IN  /\ popped \in entities
              /\ entities' = entities \ {popped}
              /\ \A e \in entities' :
                    /\ entity_attributes'[e] = entity_attributes[e]
                    /\ config'[e] = config[e]
              /\ \A i \in 1..(Len(drawn_entities) - 1) :
                    drawn_entities[i].entity \in entities'
              /\ WorkingEntities \subseteq entities'
              /\ (menu_layer # NoEntity => menu_layer \in entities')]_vars

\* a committed shape was undone while a rectangle with a registered preview
\* was in progress and the menu overlay existed
C24_UndoneBesideOthers ==
    /\ p_event = "BACKSPACE" /\ trail = "undo"
    /\ state = "DrawRectangle"
    /\ preview_rectangle \in entities
    /\ menu_layer \in entities

\* C25: for every committed shape and every style s, rebuilding twice with s
\* yields two entities with identical geometry and identical style payload,
\* each determined only by the captured geometry and s (with the style of the
\* commit it reproduces the committed entity); entity identity may differ.
CursorSamples ==
    {0, Len(stroke_palette) - 1} \X {0, Len(stroke_width_options) - 1}
        \X {0, Len(fill_palette) - 1} \X {0, Len(radius_options) - 1}

WithCursors(S, c) ==
    [S EXCEPT !.stroke_color_index = c[1], !.stroke_width_index = c[2],
              !.fill_color_index = c[3], !.corner_radius_index = c[4]]

Fillable(cfg) == cfg.kind \in {"Rectangle", "Polygon", "Circle"}

CarriesStyle(cfg, style) ==
    /\ cfg.color = style.stroke_color
    /\ cfg.stroke = style.stroke_width
    /\ (Fillable(cfg) => cfg.fill_color = style.fill_color)

DraftRebuildTwice(S, closure, style) ==
    LET r1 == DraftCommit_rebuild(S, closure, style)
        r2 == DraftCommit_rebuild(r1.s, closure, style)
    IN  /\ r2.s.config[r2.ret] = r1.s.config[r1.ret]
        /\ r2.s.config[r1.ret] = r1.s.config[r1.ret]
        /\ CarriesStyle(r1.s.config[r1.ret], style)
        /\ r1.s.config[r1.ret].kind = closure.kind

PainterRebuildTwice(S) ==
    LET b1 == build_committed_entity(S)
        b2 == build_committed_entity(b1.s)
    IN  b1.ret # NoEntity =>
            /\ b2.ret # NoEntity
            /\ b2.s.config[b2.ret] = b1.s.config[b1.ret]
            /\ b2.s.config[b1.ret] = b1.s.config[b1.ret]
            /\ CarriesStyle(b1.s.config[b1.ret], current_style(S))
            /\ b1.s.config[b1.ret].kind = S.last_committed_shape

C25_RebuildIdempotent ==
    /\ \A i \in 1..Len(commits) :
          /\ \A c \in CursorSamples :
                DraftRebuildTwice(Cur, commits[i].rebuild, current_style(WithCursors(Cur, c)))
          /\ commits[i].entity \in entities
          /\ LET r == DraftCommit_rebuild(Cur, commits[i].rebuild, current_style(Cur))
             IN  r.s.config[r.ret] = config[commits[i].entity]
    /\ \A c \in CursorSamples : PainterRebuildTwice(WithCursors(Cur, c))
    /\ LET b == build_committed_entity(Cur)
       IN  (b.ret # NoEntity /\ drawn_entities # <<>>) =>
               /\ Last(drawn_entities).entity \in entities
               /\ b.s.config[b.ret] = config[Last(drawn_entities).entity]

\* two rectangles have been committed by a RectangleDraft, the first one
\* between two different corners
C25_TwoRectanglesCommitted ==
    /\ draft_kind = "Rectangle" /\ Len(commits) = 2
    /\ commits[1].rebuild.corners[1] # commits[1].rebuild.corners[2]

\* C26: MenuItem::contains(p) holds exactly when
\* top_left.x <= p.x <= bottom_right.x and bottom_right.y <= p.y <= top_left.y,
\* all four edges inclusive; for top_left = (-2,1), bottom_right = (2,0.2)
\* the point (0,0.5) is contained and (0,1.5) is not.
C26_ContainsIsClosedBox ==
    /\ probe[1].asked # 0 =>
          LET item == probe[1].menu.items[probe[1].asked]
              p == probe[1].point
          IN  probe[1].hit <=> /\ item.top_left[1] <= p[1] /\ p[1] <= item.bottom_right[1]
                               /\ item.bottom_right[2] <= p[2] /\ p[2] <= item.top_left[2]
    /\ LET item == [MenuItem(<<"item", 1>>, "") EXCEPT
                       !.top_left = <<-20, 10>>, !.bottom_right = <<20, 2>>]
       IN  contains(item, <<0, 5>>) /\ ~contains(item, <<0, 15>>)

\* the bottom-right corner of the example box was found to be inside it
C26_CornerContained ==
    /\ probe # None /\ probe[1].asked = 1 /\ probe[1].hit
    /\ probe[1].menu.items[1].top_left = <<-20, 10>>
    /\ probe[1].menu.items[1].bottom_right = <<20, 2>>
    /\ probe[1].point = <<20, 2>>

\* C27: after MenuState::layout with n items, item i (0-based) has
\* left = anchor.x - width/2, right = left + width,
\* top_i = anchor.y + H/2 - i*(item_height + padding), bottom_i = top_i - item_height,
\* with H = n*(item_height + padding) - padding (0 when n = 0); so consecutive
\* boxes are exactly `padding` apart, no two boxes overlap and the stack is
\* vertically centered on the anchor.  This holds whenever the menu is visible.
LaidOut(M) ==
    LET n == Len(M.items)
        H == IF n = 0 THEN 0 ELSE n * (M.item_height + M.padding) - M.padding
        left(i) == M.items[i].top_left[1]
        right(i) == M.items[i].bottom_right[1]
        top(i) == M.items[i].top_left[2]
        bottom(i) == M.items[i].bottom_right[2]
    IN  /\ \A i \in 1..n :
              /\ 2 * left(i) = 2 * M.anchor[1] - M.width
              /\ right(i) = left(i) + M.width
              /\ 2 * top(i) = 2 * M.anchor[2] + H - 2 * (i - 1) * (M.item_height + M.padding)
              /\ bottom(i) = top(i) - M.item_height
        /\ \A i \in 1..(n - 1) : bottom(i) - top(i + 1) = M.padding
        /\ \A i, j \in 1..n : i < j => bottom(i) > top(j)
        /\ n > 0 => top(1) + bottom(n) = 2 * M.anchor[2]

C27_MenuLaidOut ==
    /\ menu_state.visible => LaidOut(menu_state)
    /\ \A n \in 0..MaxItems, anchor \in AnchorSet :
          LET M == [InitMenuState EXCEPT
                       !.anchor = anchor,
                       !.items = [i \in 1..n |-> MenuItem(<<"item", i>>, "")]]
          IN  /\ LaidOut(layout(M))
              /\ Len(layout(M).items) = n

\* the main menu is shown again after one of its items was pressed
C27_MainMenuRefreshed ==
    /\ menu_state.visible /\ menu_state.kind = "Main" /\ Len(menu_state.items) = 3
    /\ p_event = "press"

\* C28: when the Canvas is destructed while entities are still registered,
\* each of them gets its back-reference set to none and stays alive;
\* destructing such an entity afterwards performs no registry operation and
\* raises no error, and no operation on a detached entity dereferences the
\* destructed registry.
C28_TeardownDetaches ==
    [][/\ fault' # "use-after-free"
       /\ (canvas_alive /\ ~canvas_alive') =>
             /\ detached' = entities
             /\ config' = config
             /\ ~thrown'
       /\ (~canvas_alive /\ config' # config) =>
             /\ \E entity \in detached :
                   /\ config' = Drop(config, entity)
                   /\ detached' = detached \ {entity}
             /\ UNCHANGED <<entities, entity_attributes, priority_counter>>
             /\ ~thrown' /\ fault' = ""]_vars

\* the Canvas went away with three entities registered, and one of them has
\* been destructed since
C28_DetachedDestructed ==
    /\ ~canvas_alive /\ fault = ""
    /\ Cardinality(entities) = 3
    /\ Cardinality(detached) = 2
    /\ Objects = detached

\* C29: a frame of the render loop draws every live entity exactly once, in
\* non-decreasing order of the priority it has at that moment (priorities
\* overridden by set_entity_priority included); entities with equal priority
\* do not make the loop fail.
StrictWeakOrder(S) ==
    LET less(a, b) == spin_compare(S, a, b)
        same(a, b) == ~less(a, b) /\ ~less(b, a)
    IN  /\ \A a \in S.entities : ~less(a, a)
        /\ \A a, b, c \in S.entities : (less(a, b) /\ less(b, c)) => less(a, c)
        /\ \A a, b, c \in S.entities : (same(a, b) /\ same(b, c)) => same(a, c)

C29_FrameInPriorityOrder ==
    /\ StrictWeakOrder(Cur)
    /\ sorted_entities(Cur) # {}
    /\ frame # None =>
          LET drawn == frame[1]
          IN  /\ Len(drawn) = Cardinality(entities)
              /\ \A e \in entities : Cardinality({i \in 1..Len(drawn) : drawn[i] = e}) = 1
              /\ \A i, j \in 1..Len(drawn) :
                    i < j => entity_attributes[drawn[i]] <= entity_attributes[drawn[j]]

\* a frame drew four entities, two of them tied at an overridden priority,
\* and an entity added later before one added earlier
C29_FrameWithTieAndOverride ==
    /\ frame # None /\ Len(frame[1]) = 4
    /\ \E a, b \in overridden : a # b /\ entity_attributes[a] = entity_attributes[b]
    /\ \E i, j \in 1..4 : i < j /\ frame[1][i] > frame[1][j]

\* C30: for every Draft kind and every draft state, reset() leaves the draft
\* with no recorded points or anchor and with none of its preview or segment
\* entities in the registry, and a second reset() changes nothing.
C30_ResetIsIdempotent ==
    /\ LET R == Draft_reset(Cur)
       IN  /\ DraftIdle(R)
           /\ DraftOwned(Cur) \cap R.entities = {}
           /\ Others(R) = Others(Cur)
           /\ Draft_reset(R) = R
    /\ d_event = "reset" =>
          /\ DraftIdle(Cur)
          /\ Others(Cur) = d_others
          /\ entities = { o[1] : o \in d_others }
          /\ last_commits = 0
          /\ Draft_reset(Cur) = Cur

\* reset() was called on a PolygonDraft that held two points, beside a
\* polygon committed earlier
C30_PolygonReset ==
    /\ d_event = "reset" /\ draft_kind = "Polygon"
    /\ Len(d_recorded) = 2
    /\ Len(commits) = 1
    /\ priority_counter >= kCanvasPriorityStep * 4

\* C31: every style action (cycling stroke color, stroke width, fill color,
\* corner radius or shape kind) changes at most the last history entry: the
\* history length is unchanged and every entry other than the last keeps its
\* entity and its priority.
StyleAction ==
    \/ stroke_color_index' # stroke_color_index
    \/ stroke_width_index' # stroke_width_index
    \/ fill_color_index' # fill_color_index
    \/ corner_radius_index' # corner_radius_index
    \/ active_shape' # active_shape

GeometryOf(cfg) ==
    CASE cfg.kind = "Line" -> <<cfg.kind, cfg.start, cfg.end>>
      [] cfg.kind = "Rectangle" -> <<cfg.kind, cfg.center, cfg.width, cfg.height>>
      [] cfg.kind = "Circle" -> <<cfg.kind, cfg.center, cfg.radius>>
      [] OTHER -> <<cfg.kind, cfg.points>>

StyleOf(cfg) ==
    << cfg.color, cfg.stroke,
       IF Fillable(cfg) THEN cfg.fill_color ELSE None,
       IF cfg.kind = "Rectangle" THEN cfg.corner_radius ELSE None >>

StyleFor(kind, style) ==
    << style.stroke_color, style.stroke_width,
       IF kind \in {"Rectangle", "Polygon", "Circle"} THEN style.fill_color ELSE None,
       IF kind = "Rectangle" /\ style.corner_radius > 0
       THEN Some(style.corner_radius) ELSE None >>

C32_RebuildKeepsGeometry ==
    \A i \in 1..Len(commits) :
        /\ commits[i].entity \in entities
        /\ \A c \in CursorSamples :
              LET style == current_style(WithCursors(Cur, c))
                  r == DraftCommit_rebuild(Cur, commits[i].rebuild, style)
                  cfg == r.s.config[r.ret]
              IN  /\ GeometryOf(cfg) = GeometryOf(config[commits[i].entity])
                  /\ StyleOf(cfg) = StyleFor(commits[i].shape_type, style)
                  /\ r.s.config[commits[i].entity] = config[commits[i].entity]

\* a PolygonDraft has committed a polygon in the initial style
C32_PolygonCommitted ==
    /\ draft_kind = "Polygon" /\ Len(commits) = 1
    /\ commits[1].entity \in entities
    /\ config[commits[1].entity].fill_color = None
    /\ Len(commits[1].rebuild.points) = 3

\* C33: in PolygonDraft and PolylineDraft, after k >= 1 primary presses with
\* no finish or abort key in between, exactly k-1 segment entities are
\* registered, the i-th joining press point i to press point i+1, and the
\* preview entity is absent immediately after each press; after a subsequent
\* pointer move exactly one preview entity exists, running from the last
\* press point to the pointer.
Gesture ==
    draft_kind \in {"Polygon", "Polyline"} /\ ~d_done /\ d_presses # <<>>

SegmentsJoin(S, presses) ==
    /\ Len(S.segments_) = Len(presses) - 1
    /\ Cardinality(Range(S.segments_)) = Len(presses) - 1
    /\ \A i \in 1..(Len(presses) - 1) :
          /\ S.segments_[i] \in S.entities
          /\ S.config[S.segments_[i]].kind = "Line"
          /\ S.config[S.segments_[i]].start = presses[i]
          /\ S.config[S.segments_[i]].end = presses[i + 1]

C33_SegmentsFollowPresses ==
    Gesture =>
        /\ SegmentsJoin(Cur, d_presses)
        /\ DraftOwned(Cur) \ Range(segments_) = {preview_segment_} \ {NoEntity}
        /\ d_event = "press" => preview_segment_ = NoEntity
        /\ preview_segment_ # NoEntity =>
              /\ preview_segment_ \in entities \ Range(segments_)
              /\ config[preview_segment_].start = Last(d_presses)
        /\ \A world \in DraftPoints :
              LET S == Draft_on_mouse_move(Cur, world)
              IN  /\ SegmentsJoin(S, d_presses)
                  /\ S.preview_segment_ # NoEntity
                  /\ DraftOwned(S) \ Range(S.segments_) = {S.preview_segment_}
                  /\ S.preview_segment_ \in S.entities
                  /\ S.config[S.preview_segment_].start = Last(d_presses)
                  /\ S.config[S.preview_segment_].end = world

\* a press that follows a pointer move has joined the second point to the first
C33_PressAfterMove ==
    /\ Gesture /\ d_event = "press" /\ Len(d_presses) = 2
    /\ Len(d_recorded) = 1
    /\ Len(segments_) = 1 /\ preview_segment_ = NoEntity
    /\ priority_counter >= 2 * kCanvasPriorityStep

\* a pointer move after two presses shows the preview from the second point
C33_PreviewAfterPresses ==
    /\ Gesture /\ Len(d_presses) = 2 /\ d_event = "other"
    /\ preview_segment_ \in entities
    /\ config[preview_segment_].end # Last(d_presses)

\* C34: working priorities are never reused: successive calls of
\* allocate_working_priority return strictly increasing values, all at or
\* above kWorkingPriorityBase, whatever commits, cancels, undos or shape-kind
\* switches happen in between.  Every value handed out so far lies below
\* kWorkingPriorityBase + working_priority_counter, and a handler gives each
\* working entity it makes a value of its own at or above that mark.
C34_WorkingPrioritiesIncrease ==
    [][LET made == { e \in Range(segments') \cup
                            ({preview_segment', preview_rectangle'} \ {NoEntity}) :
                        \/ e \notin WorkingEntities
                        \/ entity_attributes'[e] # entity_attributes[e] }
           low == kWorkingPriorityBase + working_priority_counter
           high == kWorkingPriorityBase + working_priority_counter'
       IN  /\ working_priority_counter' >= working_priority_counter
           /\ allocate_working_priority(Cur).ret = low
           /\ allocate_working_priority(allocate_working_priority(Cur).s).ret > low
           /\ \A e \in made :
                 /\ entity_attributes'[e] >= low
                 /\ entity_attributes'[e] < high
           /\ \A e, f \in made :
                 e # f => entity_attributes'[e] # entity_attributes'[f]
           /\ \A e \in WorkingEntities :
                 /\ e \in DOMAIN entity_attributes
                 /\ entity_attributes[e] >= kWorkingPriorityBase
                 /\ entity_attributes[e] < low]_vars

\* a preview segment made after a commit, a cancelled rectangle and an undo
C34_AllocatedAfterUndo ==
    /\ working_priority_counter >= 3
    /\ next_priority > kInitialNextPriority
    /\ drawn_entities = <<>>
    /\ state = "DrawPolygon"
    /\ preview_segment \in entities
    /\ entity_attributes[preview_segment] = kWorkingPriorityBase + working_priority_counter - 1

\* C35: whenever an input handler has returned, the registry is consistent:
\* every entity of the live set has a priority record, so the render sort
\* reads only existing records and creates none.
C35_LiveEntitiesHaveRecords ==
    /\ entities \subseteq DOMAIN entity_attributes
    /\ \A a \in entities : attribute_subscript(Cur, a) = Cur

\* a handler has returned with a history entry, a working entity and the
\* menu overlay in the live set
C35_ThreeKindsLive ==
    /\ p_event # "" /\ ~thrown
    /\ drawn_entities # <<>>
    /\ WorkingEntities # {}
    /\ menu_layer \in entities
    /\ Cardinality(entities) >= 3

\* C36: at every handler boundary a visible menu implies that the Painter is
\* Idle, for the main menu and for the shape-specific menu alike.
C36_VisibleMenuImpliesIdle ==
    menu_state.visible =>
        /\ menu_state.kind \in {"Main", "ShapeSpecific"}
        /\ state = "Idle"
        /\ polygon_points = <<>>
        /\ rect_first_corner = None

\* the shape-specific menu, opened by the Escape that committed a polygon
C36_ShapeMenuAfterCommit ==
    /\ p_event = GLFW_KEY_ESCAPE /\ trail = "commit"
    /\ menu_state.visible /\ menu_state.kind = "ShapeSpecific"
    /\ config[Last(drawn_entities).entity].kind = "Polygon"

\* C37: no entity leaks: at every handler boundary the live set of the Canvas
\* consists exactly of the entities of drawn_entities, the segment and
\* preview entities the Painter holds, and the menu overlay once it has been
\* created; and whenever the Painter is Idle no segment or preview entity is
\* registered.
HistoryEntities == { drawn_entities[i].entity : i \in 1..Len(drawn_entities) }

C37_NoEntityLeaks ==
    ~thrown =>
        /\ entities = HistoryEntities \cup WorkingEntities \cup ({menu_layer} \ {NoEntity})
        /\ Cardinality(entities) =
              Len(drawn_entities) + Len(segments)
                  + (IF preview_segment = NoEntity THEN 0 ELSE 1)
                  + (IF preview_rectangle = NoEntity THEN 0 ELSE 1)
                  + (IF menu_layer = NoEntity THEN 0 ELSE 1)
        /\ DOMAIN config = entities
        /\ state = "Idle" => WorkingEntities = {}

\* back in Idle after a cancelled polygon, with a history entry and the
\* overlay registered
C37_IdleAfterCancel ==
    /\ p_event = GLFW_KEY_ESCAPE /\ trail = "" /\ state = "Idle"
    /\ ~menu_state.visible
    /\ working_priority_counter > 2
    /\ Len(drawn_entities) = 1 /\ menu_layer \in entities
    /\ Cardinality(entities) = 2

\* C38: a rebuild never gives the last history entry the geometry of another
\* shape: in every reachable Painter state, if the committed-geometry
\* snapshot selected by last_committed_shape is usable (committed_polygon
\* with at least 3 points, or committed_rectangle present), it is the
\* geometry of the last entry of drawn_entities; after an undo the snapshot
\* is empty and cycling a style replaces no entity.
SnapshotUsable(S) ==
    \/ S.last_committed_shape = "Polygon" /\ Len(S.committed_polygon) >= 3
    \/ S.last_committed_shape = "Rectangle" /\ S.committed_rectangle # None

SnapshotGeometry(S) ==
    IF S.last_committed_shape = "Polygon"
    THEN <<"Polygon", S.committed_polygon>>
    ELSE LET first == S.committed_rectangle[1].first
             second == S.committed_rectangle[1].second
         IN  << "Rectangle",
                << Half(first[1] + second[1]), Half(first[2] + second[2]) >>,
                Abs(second[1] - first[1]), Abs(second[2] - first[2]) >>

Replaces(S) ==
    \/ S.drawn_entities # drawn_entities
    \/ S.entities # entities
    \/ S.config # config
    \/ S.priority_counter # priority_counter

C38_SnapshotIsTopGeometry ==
    /\ SnapshotUsable(Cur) =>
          /\ drawn_entities # <<>>
          /\ Last(drawn_entities).entity \in entities
          /\ GeometryOf(config[Last(drawn_entities).entity]) = SnapshotGeometry(Cur)
          /\ LET r == rebuild_committed_shape(Cur, TRUE)
             IN  /\ Len(r.drawn_entities) = Len(drawn_entities)
                 /\ GeometryOf(r.config[Last(r.drawn_entities).entity])
                        = GeometryOf(config[Last(drawn_entities).entity])
    /\ (p_event = GLFW_KEY_BACKSPACE /\ trail \in {"undo", "commit-undo"}) =>
          /\ ~SnapshotUsable(Cur)
          /\ ~Replaces(cycle_stroke_color(Cur))
          /\ ~Replaces(cycle_stroke_width(Cur))
          /\ ~Replaces(rebuild_committed_shape(Cur, TRUE))

\* an undo has removed the second of two rectangles of different geometry
C38_UndoneSecondRectangle ==
    /\ p_event = GLFW_KEY_BACKSPACE /\ trail \in {"undo", "commit-undo"}
    /\ Len(drawn_entities) = 1
    /\ config[drawn_entities[1].entity].kind = "Rectangle"
    /\ next_priority = kInitialNextPriority + 2 * kCommittedPriorityStep

\* C39: in the Painter's rectangle mode a press never appends to the
\* history: the first press records the first corner, the second and every
\* later press only sets the second corner again and updates the preview,
\* and a history entry is appended only by the finalize key (Escape) once
\* both corners are set.
RectangleMode == active_shape = "Rectangle" /\ active_shape' = "Rectangle"

C39_RectanglePressNeverCommits ==
    [][RectangleMode =>
          /\ p_event' = "press" => Len(drawn_entities') = Len(drawn_entities)
          /\ (p_event' = "press" /\ ~menu_state.visible /\ state = "Idle") =>
                /\ state' = "DrawRectangle"
                /\ rect_first_corner' = Some(last_cursor_world')
                /\ rect_second_corner' = None
                /\ preview_rectangle' = NoEntity
                /\ UNCHANGED <<drawn_entities, entities>>
          /\ (p_event' = "press" /\ ~menu_state.visible /\ state = "DrawRectangle") =>
                /\ state' = "DrawRectangle"
                /\ rect_first_corner # None
                /\ rect_first_corner' = rect_first_corner
                /\ rect_second_corner' = Some(last_cursor_world')
                /\ preview_rectangle' \in entities'
                /\ GeometryOf(config'[preview_rectangle'])
                      = << "Rectangle",
                           << Half(rect_first_corner[1][1] + last_cursor_world'[1]),
                              Half(rect_first_corner[1][2] + last_cursor_world'[2]) >>,
                           Abs(last_cursor_world'[1] - rect_first_corner[1][1]),
                           Abs(last_cursor_world'[2] - rect_first_corner[1][2]) >>
                /\ UNCHANGED drawn_entities
          /\ Len(drawn_entities') > Len(drawn_entities) =>
                /\ p_event' = GLFW_KEY_ESCAPE
                /\ state = "DrawRectangle"
                /\ rect_first_corner # None /\ rect_second_corner # None
                /\ Len(drawn_entities') = Len(drawn_entities) + 1]_vars

\* a press after the first has set the second corner (here onto the first
\* corner), with no history entry made
C39_SecondCornerSet ==
    /\ p_event = "press" /\ active_shape = "Rectangle" /\ state = "DrawRectangle"
    /\ rect_first_corner # None /\ rect_second_corner # None
    /\ rect_second_corner = rect_first_corner
    /\ preview_rectangle \in entities
    /\ drawn_entities = <<>>

\* C40: Canvas::delete_entity removes the priority record of the entity
\* together with its membership of the live set, so after any sequence of
\* adds and removes the set of entities that have a priority record equals
\* the live set, and get_entity_attr / set_entity_priority on a removed
\* entity fail.
C40_RecordsMatchLiveSet ==
    ~thrown =>
        /\ DOMAIN entity_attributes = entities
        /\ \A entity \in (1..(MaxAdds + 1)) \ entities :
              set_entity_priority(Cur, entity, 0).thrown

====
